---- MODULE Spec2Model ----
(***************************************************************************)
(* A model of c/src/ml-api-inference-internal.c: the framework name        *)
(* registry, the tensor descriptor converter, the model file validator and *)
(* the element availability gate.                                          *)
(*                                                                         *)
(* C strings are sequences of one-character strings, so that strrchr,      *)
(* g_ascii_strdown, g_ascii_strcasecmp, g_str_has_prefix and               *)
(* g_strsplit_set are computed character by character.                     *)
(***************************************************************************)
EXTENDS Integers, Sequences, FiniteSets, TLC

VARIABLES
  vpc,      \* validator: "idle" | "call" | "done"
  vin,      \* validator: the arguments and the environment of one call
  vout,     \* validator: what the call left behind
  rank,     \* converter: the rank limits of the build, [ml, nns]
  ml_info,  \* converter: the public descriptor set, an ml_tensors_info_s
  gst_info, \* converter: the internal descriptor set, a GstTensorsInfo
  ml_out,   \* converter: the public set _ml_tensors_info_copy_from_gst fills
  cpc,      \* converter: the position of the conversion
  created,  \* converter: the call of _ml_tensors_info_create_from_gst
  lock,     \* converter: who holds ml_info.lock: "free", "conv" or "owner"
  ci,       \* converter: the loop index i of the conversion in progress
  cj,       \* converter: the values of j whose dimension has been copied
  cn,       \* converter: the count of the source as the conversion last read it
  opc,      \* converter: the position of the owner of ml_info
  writes,   \* converter: how many times the owner has written ml_info
  seen,     \* converter: the values ml_info had during the conversion
  conf,     \* gate: the configuration and the engine, read only
  list_loaded,          \* gate: the static latch of the lazy load
  restricted_elements,  \* gate: the static allow-list
  th,       \* gate: the call each thread is in
  calls,    \* gate: how many calls have been started
  loads,    \* gate: how many times the load step has been run
  rpc,      \* registry: "idle" | "lookup" | "resolve" | "done"
  r_id,     \* registry: the framework id whose name is looked up, or "none"
  r_name,   \* registry: the name to resolve
  r_type    \* registry: the framework id the name resolved to, or "none"

vars == <<vpc, vin, vout, rank, ml_info, gst_info, ml_out, cpc, created,
          lock, ci, cj, cn, opc, writes, seen,
          conf, list_loaded, restricted_elements, th, calls, loads,
          rpc, r_id, r_name, r_type>>

validator_vars == <<vpc, vin, vout>>
converter_vars == <<rank, ml_info, gst_info, ml_out, cpc, created>>
lock_vars == <<lock, ci, cj, cn, opc, writes, seen>>
gate_vars == <<conf, list_loaded, restricted_elements, th, calls, loads>>
registry_vars == <<rpc, r_id, r_name, r_type>>

\* The registry when no lookup of it is explored.
RegistryIdle ==
  rpc = "idle" /\ r_id = "none" /\ r_name = <<>> /\ r_type = "none"

\* A string vector pointer: null, or a vector of strings.
NullStrv == [null |-> TRUE, strv |-> <<>>]
Strv(v) == [null |-> FALSE, strv |-> v]

\* The gate when no call of it is explored.
GateIdle ==
  /\ conf = [enable |-> FALSE]
  /\ list_loaded = FALSE
  /\ restricted_elements = NullStrv
  /\ th = <<>>
  /\ calls = 0
  /\ loads = 0

\* The lock and the owner when no concurrent conversion is explored.
LockIdle ==
  /\ lock = "free" /\ ci = 0 /\ cj = {} /\ cn = 0
  /\ opc = "idle" /\ writes = 0 /\ seen = {}

\* The converter when no call of _ml_tensors_info_create_from_gst is
\* explored.
NoCreate == [status |-> "none"]

\* The validator when no call of it is explored.
NoCall == [has_model |-> FALSE]
NoResult == [status |-> "none"]
ValidatorIdle == vpc = "idle" /\ vin = NoCall /\ vout = NoResult

(***************************************************************************)
(* Strings                                                                 *)
(***************************************************************************)

\* The null pointer: a value no character sequence equals.
NULL == <<"(null)">>

UpperChars == <<"A", "B", "C", "D", "E", "F", "G", "H", "I", "J", "K", "L", "M",
                "N", "O", "P", "Q", "R", "S", "T", "U", "V", "W", "X", "Y", "Z">>

LowerChars == <<"a", "b", "c", "d", "e", "f", "g", "h", "i", "j", "k", "l", "m",
                "n", "o", "p", "q", "r", "s", "t", "u", "v", "w", "x", "y", "z">>

\* g_ascii_tolower: only the 26 ASCII capitals change.
g_ascii_tolower(c) ==
  IF \E k \in 1..Len(UpperChars) : UpperChars[k] = c
  THEN LowerChars[CHOOSE k \in 1..Len(UpperChars) : UpperChars[k] = c]
  ELSE c

\* g_ascii_strdown (str, -1): a lowercased copy of the whole string.
g_ascii_strdown(str) == [k \in 1..Len(str) |-> g_ascii_tolower(str[k])]

\* g_ascii_strcasecmp (s1, s2) == 0
g_ascii_strcasecmp_eq(s1, s2) ==
  /\ Len(s1) = Len(s2)
  /\ \A k \in 1..Len(s1) : g_ascii_tolower(s1[k]) = g_ascii_tolower(s2[k])

\* strrchr (s, c): the suffix of s from the last occurrence of c, or NULL.
strrchr(s, c) ==
  IF \E k \in 1..Len(s) : s[k] = c
  THEN LET last == CHOOSE k \in 1..Len(s) :
                     s[k] = c /\ \A m \in (k + 1)..Len(s) : s[m] # c
       IN  SubSeq(s, last, Len(s))
  ELSE NULL

\* g_str_equal
g_str_equal(s1, s2) == s1 = s2

\* g_str_has_prefix
g_str_has_prefix(str, prefix) ==
  /\ Len(prefix) <= Len(str)
  /\ SubSeq(str, 1, Len(prefix)) = prefix

\* find_key_strv (strv, key): the 0-based index of the first entry that
\* equals key when ASCII case is ignored, or -1.
find_key_strv(strv, key) ==
  IF \E k \in 1..Len(strv) : g_ascii_strcasecmp_eq(strv[k], key)
  THEN (CHOOSE k \in 1..Len(strv) :
          /\ g_ascii_strcasecmp_eq(strv[k], key)
          /\ \A m \in 1..(k - 1) : ~g_ascii_strcasecmp_eq(strv[m], key)) - 1
  ELSE -1

(***************************************************************************)
(* Framework registry                                                      *)
(***************************************************************************)

\* The enumerators the designators of ml_nnfw_subplugin_name[] name, in the
\* order of their indices; entry k + 1 is the enumerator of value k.
NnfwTableIds ==
  << "ML_NNFW_TYPE_ANY", "ML_NNFW_TYPE_CUSTOM_FILTER",
     "ML_NNFW_TYPE_TENSORFLOW_LITE", "ML_NNFW_TYPE_TENSORFLOW",
     "ML_NNFW_TYPE_NNFW", "ML_NNFW_TYPE_MVNC", "ML_NNFW_TYPE_OPENVINO",
     "ML_NNFW_TYPE_VIVANTE", "ML_NNFW_TYPE_EDGE_TPU", "ML_NNFW_TYPE_ARMNN",
     "ML_NNFW_TYPE_SNPE", "ML_NNFW_TYPE_PYTORCH", "ML_NNFW_TYPE_NNTR_INF",
     "ML_NNFW_TYPE_VD_AIFW", "ML_NNFW_TYPE_TRIX_ENGINE" >>

ml_nnfw_subplugin_name ==
  << <<"a", "n", "y">>,
     <<"c", "u", "s", "t", "o", "m">>,
     <<"t", "e", "n", "s", "o", "r", "f", "l", "o", "w", "-", "l", "i", "t", "e">>,
     <<"t", "e", "n", "s", "o", "r", "f", "l", "o", "w">>,
     <<"n", "n", "f", "w">>,
     <<"m", "o", "v", "i", "d", "i", "u", "s", "-", "n", "c", "s", "d", "k", "2">>,
     <<"o", "p", "e", "n", "v", "i", "n", "o">>,
     <<"v", "i", "v", "a", "n", "t", "e">>,
     <<"e", "d", "g", "e", "t", "p", "u">>,
     <<"a", "r", "m", "n", "n">>,
     <<"s", "n", "p", "e">>,
     <<"p", "y", "t", "o", "r", "c", "h">>,
     <<"n", "n", "t", "r", "a", "i", "n", "e", "r">>,
     <<"v", "d", "_", "a", "i", "f", "w">>,
     <<"t", "r", "i", "x", "-", "e", "n", "g", "i", "n", "e">> >>

S_snap == <<"s", "n", "a", "p">>

\* Every ml_nnfw_type_e value.
NnfwTypes == {NnfwTableIds[k] : k \in 1..Len(NnfwTableIds)} \cup {"ML_NNFW_TYPE_SNAP"}

\* (ml_nnfw_type_e) idx
NnfwOfIndex(idx) == NnfwTableIds[idx + 1]

_ml_get_nnfw_subplugin_name(nnfw) ==
  IF nnfw = "ML_NNFW_TYPE_SNAP"
  THEN S_snap
  ELSE ml_nnfw_subplugin_name[
         CHOOSE k \in 1..Len(NnfwTableIds) : NnfwTableIds[k] = nnfw]

\* _ml_get_nnfw_type_by_subplugin_name without the test for "snap".
_ml_get_nnfw_type_by_subplugin_name_NoSnap(name) ==
  IF name = NULL
  THEN "ML_NNFW_TYPE_ANY"
  ELSE LET idx == find_key_strv(ml_nnfw_subplugin_name, name)
       IN  IF idx < 0
           THEN "ML_NNFW_TYPE_ANY"
           ELSE NnfwOfIndex(idx)

_ml_get_nnfw_type_by_subplugin_name(name) ==
  IF name = NULL
  THEN "ML_NNFW_TYPE_ANY"
  ELSE LET idx == find_key_strv(ml_nnfw_subplugin_name, name)
       IN  IF idx < 0
           THEN IF g_ascii_strcasecmp_eq(name, S_snap)
                THEN "ML_NNFW_TYPE_SNAP"
                ELSE "ML_NNFW_TYPE_ANY"
           ELSE NnfwOfIndex(idx)

(***************************************************************************)
(* Model file validator                                                    *)
(***************************************************************************)

ML_ERROR_NONE == "ML_ERROR_NONE"
ML_ERROR_INVALID_PARAMETER == "ML_ERROR_INVALID_PARAMETER"
ML_ERROR_NOT_SUPPORTED == "ML_ERROR_NOT_SUPPORTED"
ML_ERROR_STREAMS_PIPE == "ML_ERROR_STREAMS_PIPE"
ML_ERROR_OUT_OF_MEMORY == "ML_ERROR_OUT_OF_MEMORY"

\* The outcome of a call that does not return: strrchr on a null path.
SIGSEGV == "SIGSEGV"

\* The paths of the modelled file system.
P_bin == <<"m", "o", "d", "e", "l", ".", "b", "i", "n">>
P_BIN == <<"M", "O", "D", "E", "L", ".", "B", "I", "N">>
P_onnx == <<"m", "o", "d", "e", "l", ".", "o", "n", "n", "x">>
P_tflite == <<"a", "d", "d", ".", "t", "f", "l", "i", "t", "e">>
P_noext == <<"m", "o", "d", "e", "l">>
P_dir == <<"m", "o", "d", "e", "l", "s">>
P_dirext == <<"n", "n", "f", "w", ".", "d">>
P_gone == <<"g", "o", "n", "e", ".", "p", "b">>

\* What the file system holds at each path: "dir", "regular" or "missing".
FileKind(path) ==
  CASE path \in {P_bin, P_BIN, P_onnx, P_tflite, P_noext} -> "regular"
    [] path \in {P_dir, P_dirext} -> "dir"
    [] OTHER -> "missing"

\* g_file_test (path, G_FILE_TEST_IS_DIR); FALSE for a null path.
g_file_test_is_dir(path) == path # NULL /\ FileKind(path) = "dir"

\* g_file_test (path, G_FILE_TEST_IS_REGULAR); FALSE for a null path.
g_file_test_is_regular(path) == path # NULL /\ FileKind(path) = "regular"

\* __ml_validate_model_file with the loop over the paths left out: only
\* model[0] is tested.
__ml_validate_model_file_FirstOnly(has_model, model, num_models) ==
  IF ~has_model \/ num_models < 1
  THEN [status |-> ML_ERROR_INVALID_PARAMETER, is_dir |-> FALSE]
  ELSE IF g_file_test_is_dir(model[1])
  THEN [status |-> ML_ERROR_NONE, is_dir |-> TRUE]
  ELSE IF model[1] = NULL \/ ~g_file_test_is_regular(model[1])
  THEN [status |-> ML_ERROR_INVALID_PARAMETER, is_dir |-> FALSE]
  ELSE [status |-> ML_ERROR_NONE, is_dir |-> FALSE]

\* __ml_validate_model_file: the status and the value left in *is_dir, which
\* the caller initialized to FALSE.
__ml_validate_model_file(has_model, model, num_models) ==
  IF ~has_model \/ num_models < 1
  THEN [status |-> ML_ERROR_INVALID_PARAMETER, is_dir |-> FALSE]
  ELSE IF g_file_test_is_dir(model[1])
  THEN [status |-> ML_ERROR_NONE, is_dir |-> TRUE]
  ELSE IF \E i \in 1..num_models :
            model[i] = NULL \/ ~g_file_test_is_regular(model[i])
  THEN [status |-> ML_ERROR_INVALID_PARAMETER, is_dir |-> FALSE]
  ELSE [status |-> ML_ERROR_NONE, is_dir |-> FALSE]

\* The loop that fills file_ext[]: index i is reached only when every path
\* before it has a '.'. The result is the first index at which the loop
\* stops, with the reason, or 0 when it runs to the end.
RECURSIVE FileExtLoop(_, _, _)
FileExtLoop(model, num_models, i) ==
  IF i > num_models THEN [stop |-> 0, why |-> "end"]
  ELSE IF model[i] = NULL THEN [stop |-> i, why |-> SIGSEGV]
  ELSE IF strrchr(model[i], ".") = NULL THEN [stop |-> i, why |-> "noext"]
  ELSE FileExtLoop(model, num_models, i + 1)

\* file_ext without the lowercasing.
file_ext_NoStrdown(model, i) == strrchr(model[i], ".")

\* file_ext[i] = g_ascii_strdown (strrchr (model[i], '.'), -1)
file_ext(model, i) == g_ascii_strdown(strrchr(model[i], "."))

VD_AIFW_Extensions ==
  { <<".", "n", "b">>, <<".", "n", "c", "p">>, <<".", "b", "i", "n">> }

ARMNN_Extensions ==
  { <<".", "c", "a", "f", "f", "e", "m", "o", "d", "e", "l">>,
    <<".", "t", "f", "l", "i", "t", "e">>,
    <<".", "p", "b">>,
    <<".", "p", "r", "o", "t", "o", "t", "x", "t">> }

\* ExtensionSwitch without the case of ML_NNFW_TYPE_NNFW, which then takes
\* the default branch.
ExtensionSwitch_NnfwDefault(nnfw, model, android) ==
  CASE nnfw \in {"ML_NNFW_TYPE_MVNC", "ML_NNFW_TYPE_OPENVINO",
                 "ML_NNFW_TYPE_EDGE_TPU"} -> ML_ERROR_NOT_SUPPORTED
    [] nnfw = "ML_NNFW_TYPE_VD_AIFW" ->
         IF file_ext(model, 1) \notin VD_AIFW_Extensions
         THEN ML_ERROR_INVALID_PARAMETER ELSE ML_ERROR_NONE
    [] nnfw = "ML_NNFW_TYPE_SNAP" ->
         IF ~android THEN ML_ERROR_NOT_SUPPORTED ELSE ML_ERROR_NONE
    [] nnfw = "ML_NNFW_TYPE_ARMNN" ->
         IF file_ext(model, 1) \notin ARMNN_Extensions
         THEN ML_ERROR_INVALID_PARAMETER ELSE ML_ERROR_NONE
    [] OTHER -> ML_ERROR_INVALID_PARAMETER

\* ExtensionSwitch with the test of __ANDROID__ inverted.
ExtensionSwitch_SnapGateInverted(nnfw, model, android) ==
  CASE nnfw = "ML_NNFW_TYPE_NNFW" -> ML_ERROR_NONE
    [] nnfw \in {"ML_NNFW_TYPE_MVNC", "ML_NNFW_TYPE_OPENVINO",
                 "ML_NNFW_TYPE_EDGE_TPU"} -> ML_ERROR_NOT_SUPPORTED
    [] nnfw = "ML_NNFW_TYPE_VD_AIFW" ->
         IF file_ext(model, 1) \notin VD_AIFW_Extensions
         THEN ML_ERROR_INVALID_PARAMETER ELSE ML_ERROR_NONE
    [] nnfw = "ML_NNFW_TYPE_SNAP" ->
         IF android THEN ML_ERROR_NOT_SUPPORTED ELSE ML_ERROR_NONE
    [] nnfw = "ML_NNFW_TYPE_ARMNN" ->
         IF file_ext(model, 1) \notin ARMNN_Extensions
         THEN ML_ERROR_INVALID_PARAMETER ELSE ML_ERROR_NONE
    [] OTHER -> ML_ERROR_INVALID_PARAMETER

\* ExtensionSwitch with a default branch that leaves the status alone.
ExtensionSwitch_DefaultAccepts(nnfw, model, android) ==
  CASE nnfw = "ML_NNFW_TYPE_NNFW" -> ML_ERROR_NONE
    [] nnfw \in {"ML_NNFW_TYPE_MVNC", "ML_NNFW_TYPE_OPENVINO",
                 "ML_NNFW_TYPE_EDGE_TPU"} -> ML_ERROR_NOT_SUPPORTED
    [] nnfw = "ML_NNFW_TYPE_VD_AIFW" ->
         IF file_ext(model, 1) \notin VD_AIFW_Extensions
         THEN ML_ERROR_INVALID_PARAMETER ELSE ML_ERROR_NONE
    [] nnfw = "ML_NNFW_TYPE_SNAP" ->
         IF ~android THEN ML_ERROR_NOT_SUPPORTED ELSE ML_ERROR_NONE
    [] nnfw = "ML_NNFW_TYPE_ARMNN" ->
         IF file_ext(model, 1) \notin ARMNN_Extensions
         THEN ML_ERROR_INVALID_PARAMETER ELSE ML_ERROR_NONE
    [] OTHER -> ML_ERROR_NONE

\* The switch (*nnfw) of the mismatched case: the status it leaves.
ExtensionSwitch(nnfw, model, android) ==
  CASE nnfw = "ML_NNFW_TYPE_NNFW" -> ML_ERROR_NONE
    [] nnfw \in {"ML_NNFW_TYPE_MVNC", "ML_NNFW_TYPE_OPENVINO",
                 "ML_NNFW_TYPE_EDGE_TPU"} -> ML_ERROR_NOT_SUPPORTED
    [] nnfw = "ML_NNFW_TYPE_VD_AIFW" ->
         IF file_ext(model, 1) \notin VD_AIFW_Extensions
         THEN ML_ERROR_INVALID_PARAMETER ELSE ML_ERROR_NONE
    [] nnfw = "ML_NNFW_TYPE_SNAP" ->
         IF ~android THEN ML_ERROR_NOT_SUPPORTED ELSE ML_ERROR_NONE
    [] nnfw = "ML_NNFW_TYPE_ARMNN" ->
         IF file_ext(model, 1) \notin ARMNN_Extensions
         THEN ML_ERROR_INVALID_PARAMETER ELSE ML_ERROR_NONE
    [] OTHER -> ML_ERROR_INVALID_PARAMETER

\* _ml_nnfw_is_available (nnfw, ML_NNFW_HW_ANY): the answer of the plugin
\* system, given as the set of frameworks it reports available.
_ml_nnfw_is_available(nnfw, available) == nnfw \in available

\* ValidateDone without the availability check of "done:".
ValidateDone_NoAvailabilityGate(status, nnfw, available, at) ==
  [status |-> status, nnfw |-> nnfw, at_done |-> status, at |-> at]

\* The code from "done:" on: status is the status on arrival, nnfw the value
\* held by *nnfw. "at" names the statement that jumped to done.
ValidateDone(status, nnfw, available, at) ==
  [ status |-> IF status = ML_ERROR_NONE /\ ~_ml_nnfw_is_available(nnfw, available)
               THEN ML_ERROR_NOT_SUPPORTED
               ELSE status,
    nnfw |-> nnfw,
    at_done |-> status,
    at |-> at ]

\* The mismatched case: the file_ext[] loop and the switch, for a request
\* of nnfw.
ValidateMismatch(a, nnfw) ==
  LET loop == FileExtLoop(a.model, a.num_models, 1)
  IN  CASE loop.why = SIGSEGV ->
             [status |-> SIGSEGV, nnfw |-> nnfw,
              at_done |-> SIGSEGV, at |-> "file_ext"]
        [] loop.why = "noext" ->
             ValidateDone(ML_ERROR_INVALID_PARAMETER, nnfw, a.available,
                          "file_ext")
        [] OTHER ->
             ValidateDone(ExtensionSwitch(nnfw, a.model, a.android),
                          nnfw, a.available, "switch")

\* ValidateDecide with the "goto done" of the Any branch left out after the
\* detected framework is adopted.
ValidateDecide_AnyFallsThrough(a, is_dir, detected) ==
  IF a.nnfw = "ML_NNFW_TYPE_ANY"
  THEN IF detected = "ML_NNFW_TYPE_ANY"
       THEN ValidateDone(ML_ERROR_INVALID_PARAMETER, a.nnfw, a.available, "any")
       ELSE ValidateMismatch(a, detected)
  ELSE IF is_dir /\ a.nnfw # "ML_NNFW_TYPE_NNFW"
  THEN ValidateDone(ML_ERROR_INVALID_PARAMETER, a.nnfw, a.available, "dir")
  ELSE IF detected = a.nnfw
  THEN ValidateDone(ML_ERROR_NONE, a.nnfw, a.available, "match")
  ELSE ValidateMismatch(a, a.nnfw)

\* ValidateDecide with the match test moved before the directory test.
ValidateDecide_MatchBeforeDir(a, is_dir, detected) ==
  IF a.nnfw = "ML_NNFW_TYPE_ANY"
  THEN IF detected = "ML_NNFW_TYPE_ANY"
       THEN ValidateDone(ML_ERROR_INVALID_PARAMETER, a.nnfw, a.available, "any")
       ELSE ValidateDone(ML_ERROR_NONE, detected, a.available, "any")
  ELSE IF detected = a.nnfw
  THEN ValidateDone(ML_ERROR_NONE, a.nnfw, a.available, "match")
  ELSE IF is_dir /\ a.nnfw # "ML_NNFW_TYPE_NNFW"
  THEN ValidateDone(ML_ERROR_INVALID_PARAMETER, a.nnfw, a.available, "dir")
  ELSE ValidateMismatch(a, a.nnfw)

\* ValidateDecide without the branch for a detection that matches the
\* request: a match is validated by extension like a mismatch.
ValidateDecide_NoMatchShortcut(a, is_dir, detected) ==
  IF a.nnfw = "ML_NNFW_TYPE_ANY"
  THEN IF detected = "ML_NNFW_TYPE_ANY"
       THEN ValidateDone(ML_ERROR_INVALID_PARAMETER, a.nnfw, a.available, "any")
       ELSE ValidateDone(ML_ERROR_NONE, detected, a.available, "any")
  ELSE IF is_dir /\ a.nnfw # "ML_NNFW_TYPE_NNFW"
  THEN ValidateDone(ML_ERROR_INVALID_PARAMETER, a.nnfw, a.available, "dir")
  ELSE ValidateMismatch(a, a.nnfw)

\* The decision between the detected and the requested framework, up to the
\* jump to "done:".
ValidateDecide(a, is_dir, detected) ==
  IF a.nnfw = "ML_NNFW_TYPE_ANY"
  THEN IF detected = "ML_NNFW_TYPE_ANY"
       THEN ValidateDone(ML_ERROR_INVALID_PARAMETER, a.nnfw, a.available, "any")
       ELSE ValidateDone(ML_ERROR_NONE, detected, a.available, "any")
  ELSE IF is_dir /\ a.nnfw # "ML_NNFW_TYPE_NNFW"
  THEN ValidateDone(ML_ERROR_INVALID_PARAMETER, a.nnfw, a.available, "dir")
  ELSE IF detected = a.nnfw
  THEN ValidateDone(ML_ERROR_NONE, a.nnfw, a.available, "match")
  ELSE ValidateMismatch(a, a.nnfw)

\* _ml_validate_model_file on the arguments and environment a: the status
\* returned and the value left in *nnfw.
_ml_validate_model_file(a) ==
  IF ~a.has_nnfw
  THEN [status |-> ML_ERROR_INVALID_PARAMETER, nnfw |-> a.nnfw,
        at_done |-> "none", at |-> "null_nnfw"]
  ELSE LET h == __ml_validate_model_file(a.has_model, a.model, a.num_models)
       IN  IF h.status # ML_ERROR_NONE
           THEN [status |-> h.status, nnfw |-> a.nnfw,
                 at_done |-> "none", at |-> "paths"]
           ELSE ValidateDecide(a, h.is_dir,
                  _ml_get_nnfw_type_by_subplugin_name(a.fw_name))

(***************************************************************************)
(* Tensor descriptor converter                                             *)
(***************************************************************************)

\* The rank limit of the public descriptor in the oldest build modelled (the
\* tests fill dimension[0..3]); a build may raise either limit by up to
\* RankSlack.
TensorRankLimit == 4
RankSlack == 1

\* The number of info[] slots explored, standing for ML_TENSOR_SIZE_LIMIT
\* and NNS_TENSOR_SIZE_LIMIT.
MaxTensors == 2

ML_TENSOR_RANK_LIMIT == rank.ml
NNS_TENSOR_RANK_LIMIT == rank.nns

MIN(a, b) == IF a < b THEN a ELSE b

\* The ten tensor types both representations know, in the order of the
\* switch statements: entry k of one list converts to entry k of the other.
MlKnownTypes ==
  << "ML_TENSOR_TYPE_INT32", "ML_TENSOR_TYPE_UINT32", "ML_TENSOR_TYPE_INT16",
     "ML_TENSOR_TYPE_UINT16", "ML_TENSOR_TYPE_INT8", "ML_TENSOR_TYPE_UINT8",
     "ML_TENSOR_TYPE_FLOAT64", "ML_TENSOR_TYPE_FLOAT32",
     "ML_TENSOR_TYPE_INT64", "ML_TENSOR_TYPE_UINT64" >>

NnsKnownTypes ==
  << "_NNS_INT32", "_NNS_UINT32", "_NNS_INT16", "_NNS_UINT16", "_NNS_INT8",
     "_NNS_UINT8", "_NNS_FLOAT64", "_NNS_FLOAT32", "_NNS_INT64", "_NNS_UINT64" >>

\* Every value an ml_tensor_type_e or a tensor_type field may hold: the known
\* types, the sentinel, and a value outside the enumeration.
MlTypes ==
  {MlKnownTypes[k] : k \in 1..Len(MlKnownTypes)}
    \cup {"ML_TENSOR_TYPE_UNKNOWN", "ML_TENSOR_TYPE_OUT_OF_RANGE"}

NnsTypes ==
  {NnsKnownTypes[k] : k \in 1..Len(NnsKnownTypes)}
    \cup {"_NNS_END", "_NNS_OUT_OF_RANGE"}

\* MlTypeFromGst with the results of the two 64-bit integer cases swapped.
MlTypeFromGst_Int64Swapped(type) ==
  CASE type = "_NNS_INT32" -> "ML_TENSOR_TYPE_INT32"
    [] type = "_NNS_UINT32" -> "ML_TENSOR_TYPE_UINT32"
    [] type = "_NNS_INT16" -> "ML_TENSOR_TYPE_INT16"
    [] type = "_NNS_UINT16" -> "ML_TENSOR_TYPE_UINT16"
    [] type = "_NNS_INT8" -> "ML_TENSOR_TYPE_INT8"
    [] type = "_NNS_UINT8" -> "ML_TENSOR_TYPE_UINT8"
    [] type = "_NNS_FLOAT64" -> "ML_TENSOR_TYPE_FLOAT64"
    [] type = "_NNS_FLOAT32" -> "ML_TENSOR_TYPE_FLOAT32"
    [] type = "_NNS_INT64" -> "ML_TENSOR_TYPE_UINT64"
    [] type = "_NNS_UINT64" -> "ML_TENSOR_TYPE_INT64"
    [] OTHER -> "ML_TENSOR_TYPE_UNKNOWN"

\* switch (gst_info->info[i].type)
MlTypeFromGst(type) ==
  CASE type = "_NNS_INT32" -> "ML_TENSOR_TYPE_INT32"
    [] type = "_NNS_UINT32" -> "ML_TENSOR_TYPE_UINT32"
    [] type = "_NNS_INT16" -> "ML_TENSOR_TYPE_INT16"
    [] type = "_NNS_UINT16" -> "ML_TENSOR_TYPE_UINT16"
    [] type = "_NNS_INT8" -> "ML_TENSOR_TYPE_INT8"
    [] type = "_NNS_UINT8" -> "ML_TENSOR_TYPE_UINT8"
    [] type = "_NNS_FLOAT64" -> "ML_TENSOR_TYPE_FLOAT64"
    [] type = "_NNS_FLOAT32" -> "ML_TENSOR_TYPE_FLOAT32"
    [] type = "_NNS_INT64" -> "ML_TENSOR_TYPE_INT64"
    [] type = "_NNS_UINT64" -> "ML_TENSOR_TYPE_UINT64"
    [] OTHER -> "ML_TENSOR_TYPE_UNKNOWN"

\* switch (ml_info->info[i].type)
GstTypeFromMl(type) ==
  CASE type = "ML_TENSOR_TYPE_INT32" -> "_NNS_INT32"
    [] type = "ML_TENSOR_TYPE_UINT32" -> "_NNS_UINT32"
    [] type = "ML_TENSOR_TYPE_INT16" -> "_NNS_INT16"
    [] type = "ML_TENSOR_TYPE_UINT16" -> "_NNS_UINT16"
    [] type = "ML_TENSOR_TYPE_INT8" -> "_NNS_INT8"
    [] type = "ML_TENSOR_TYPE_UINT8" -> "_NNS_UINT8"
    [] type = "ML_TENSOR_TYPE_FLOAT64" -> "_NNS_FLOAT64"
    [] type = "ML_TENSOR_TYPE_FLOAT32" -> "_NNS_FLOAT32"
    [] type = "ML_TENSOR_TYPE_INT64" -> "_NNS_INT64"
    [] type = "ML_TENSOR_TYPE_UINT64" -> "_NNS_UINT64"
    [] OTHER -> "_NNS_END"

\* g_strdup: a copy of the characters.
g_strdup(str) == str

\* One slot of a freshly initialized ml_tensors_info_s.
MlTensorInit ==
  [name |-> NULL, type |-> "ML_TENSOR_TYPE_UNKNOWN",
   dimension |-> [j \in 1..ML_TENSOR_RANK_LIMIT |-> 0]]

\* _ml_tensors_info_initialize (info): the count and every slot reset; the
\* lock and the nolock flag are kept.
_ml_tensors_info_initialize(info) ==
  [info EXCEPT !.num_tensors = 0,
               !.info = [i \in 1..MaxTensors |-> MlTensorInit]]

\* One slot of a freshly initialized GstTensorsInfo.
GstTensorInit ==
  [name |-> NULL, type |-> "_NNS_END",
   dimension |-> [j \in 1..NNS_TENSOR_RANK_LIMIT |-> 0]]

\* gst_tensors_info_init (info)
gst_tensors_info_init ==
  [num_tensors |-> 0, info |-> [i \in 1..MaxTensors |-> GstTensorInit]]

\* The body of the loop of _ml_tensors_info_copy_from_gst for one slot: dst
\* is the initialized destination slot, src the source slot.
MlTensorFromGst(dst, src) ==
  LET max_dim == MIN(ML_TENSOR_RANK_LIMIT, NNS_TENSOR_RANK_LIMIT)
  IN  [name |-> IF src.name # NULL THEN g_strdup(src.name) ELSE dst.name,
       type |-> MlTypeFromGst(src.type),
       dimension |-> [j \in 1..ML_TENSOR_RANK_LIMIT |->
                        IF j <= max_dim THEN src.dimension[j] ELSE 1]]

\* GstTensorFromMl with the name copied without the null test, so that an
\* absent name becomes an empty string.
GstTensorFromMl_NameAlwaysSet(dst, src) ==
  LET max_dim == MIN(ML_TENSOR_RANK_LIMIT, NNS_TENSOR_RANK_LIMIT)
  IN  [name |-> IF src.name # NULL THEN g_strdup(src.name) ELSE <<>>,
       type |-> GstTypeFromMl(src.type),
       dimension |-> [j \in 1..NNS_TENSOR_RANK_LIMIT |->
                        IF j <= max_dim THEN src.dimension[j] ELSE 1]]

\* GstTensorFromMl without the second dimension loop: the slots from the
\* common rank on keep the 0 of the initialization.
GstTensorFromMl_NoPadding(dst, src) ==
  LET max_dim == MIN(ML_TENSOR_RANK_LIMIT, NNS_TENSOR_RANK_LIMIT)
  IN  [name |-> IF src.name # NULL THEN g_strdup(src.name) ELSE dst.name,
       type |-> GstTypeFromMl(src.type),
       dimension |-> [j \in 1..NNS_TENSOR_RANK_LIMIT |->
                        IF j <= max_dim THEN src.dimension[j]
                        ELSE dst.dimension[j]]]

\* The body of the loop of _ml_tensors_info_copy_from_ml for one slot.
GstTensorFromMl(dst, src) ==
  LET max_dim == MIN(ML_TENSOR_RANK_LIMIT, NNS_TENSOR_RANK_LIMIT)
  IN  [name |-> IF src.name # NULL THEN g_strdup(src.name) ELSE dst.name,
       type |-> GstTypeFromMl(src.type),
       dimension |-> [j \in 1..NNS_TENSOR_RANK_LIMIT |->
                        IF j <= max_dim THEN src.dimension[j] ELSE 1]]

\* _ml_tensors_info_copy_from_gst reading the source slots from the last
\* one down.
_ml_tensors_info_copy_from_gst_Reversed(ml, gst) ==
  LET init == _ml_tensors_info_initialize(ml)
  IN  [init EXCEPT
         !.num_tensors = gst.num_tensors,
         !.info = [i \in 1..MaxTensors |->
                     IF i <= gst.num_tensors
                     THEN MlTensorFromGst(init.info[i],
                                          gst.info[gst.num_tensors + 1 - i])
                     ELSE init.info[i]]]

\* _ml_tensors_info_copy_from_gst (ml, gst): the value left in *ml.
_ml_tensors_info_copy_from_gst(ml, gst) ==
  LET init == _ml_tensors_info_initialize(ml)
  IN  [init EXCEPT
         !.num_tensors = gst.num_tensors,
         !.info = [i \in 1..MaxTensors |->
                     IF i <= gst.num_tensors
                     THEN MlTensorFromGst(init.info[i], gst.info[i])
                     ELSE init.info[i]]]

\* The handle before ml_tensors_info_create stores a set in it, and the
\* null handle.
NoHandle == [handle |-> "unset"]
NullHandle == [handle |-> "null"]

\* ml_tensors_info_create (info): the set a successful call stores in
\* *info, a locking set with every slot initialized.
ml_tensors_info_create ==
  [nolock |-> FALSE, num_tensors |-> 0,
   info |-> [i \in 1..MaxTensors |-> MlTensorInit]]

\* What ml_tensors_info_create may return.
CreateStatuses == {ML_ERROR_NONE, ML_ERROR_OUT_OF_MEMORY}

\* What a failed ml_tensors_info_create may leave in *info.
FailedHandles == {NoHandle, NullHandle}

\* _ml_tensors_info_create_from_gst (ml_info, gst_info): the status
\* returned and the value left in *ml_info.  has_ml_info and has_gst_info
\* tell whether the pointers are non-null, handle is *ml_info before the
\* call, status the answer of ml_tensors_info_create and failed what it
\* leaves in *ml_info when it fails.
_ml_tensors_info_create_from_gst(has_ml_info, has_gst_info, handle, gst, status, failed) ==
  IF ~has_ml_info \/ ~has_gst_info
  THEN [status |-> ML_ERROR_INVALID_PARAMETER, handle |-> handle]
  ELSE IF status # ML_ERROR_NONE
  THEN [status |-> status, handle |-> failed]
  ELSE [status |-> ML_ERROR_NONE,
        handle |-> _ml_tensors_info_copy_from_gst(ml_tensors_info_create, gst)]

\* _ml_tensors_info_copy_from_ml (gst, ml): the value left in *gst.
_ml_tensors_info_copy_from_ml(gst, ml) ==
  LET init == gst_tensors_info_init
  IN  [init EXCEPT
         !.num_tensors = ml.num_tensors,
         !.info = [i \in 1..MaxTensors |->
                     IF i <= ml.num_tensors
                     THEN GstTensorFromMl(init.info[i], ml.info[i])
                     ELSE init.info[i]]]


(***************************************************************************)
(* The conversions that are explored                                       *)
(***************************************************************************)

\* The builds: each rank limit from TensorRankLimit up to RankSlack more.
RankConfigs ==
  { [ml |-> m, nns |-> n] :
      m \in TensorRankLimit..(TensorRankLimit + RankSlack),
      n \in TensorRankLimit..(TensorRankLimit + RankSlack) }

TensorNames == {NULL, <<>>, <<"i", "n">>}

\* Dimension vectors of r slots: all 1, all 0, a shape that uses the first
\* TensorRankLimit slots and leaves the others 1, and a shape that uses
\* every slot.
DimOnes(r) == [j \in 1..r |-> 1]
DimZeros(r) == [j \in 1..r |-> 0]
DimShape(r) == [j \in 1..r |-> IF j <= TensorRankLimit THEN j + 1 ELSE 1]
DimFull(r) == [j \in 1..r |-> j + 1]
DimVectors(r) == {DimOnes(r), DimZeros(r), DimShape(r), DimFull(r)}

\* The slots a public set may hold: every name, every type, every dimension
\* vector, not all combined with each other.
MlTensors(r) ==
  { [name |-> n, type |-> "ML_TENSOR_TYPE_FLOAT32", dimension |-> DimShape(r)] :
      n \in TensorNames }
    \cup
  { [name |-> NULL, type |-> t, dimension |-> DimOnes(r)] : t \in MlTypes }
    \cup
  { [name |-> <<"i", "n">>, type |-> "ML_TENSOR_TYPE_UINT8", dimension |-> d] :
      d \in DimVectors(r) }

\* The slots an internal set may hold.
GstTensors(r) ==
  { [name |-> n, type |-> "_NNS_FLOAT32", dimension |-> DimShape(r)] :
      n \in TensorNames }
    \cup
  { [name |-> NULL, type |-> t, dimension |-> DimOnes(r)] : t \in NnsTypes }
    \cup
  { [name |-> <<"i", "n">>, type |-> "_NNS_UINT8", dimension |-> d] :
      d \in DimVectors(r) }

\* A slot that was never set by its owner.
UnsetTensor(type, r) == [name |-> NULL, type |-> type, dimension |-> DimZeros(r)]

\* The info[] arrays with the first n slots set.
RECURSIVE InfoArrays(_, _, _)
InfoArrays(tensors, unset, n) ==
  IF n = 0 THEN {[i \in 1..MaxTensors |-> unset]}
  ELSE {[a EXCEPT ![n] = t] : a \in InfoArrays(tensors, unset, n - 1), t \in tensors}

\* The public sets of a build with public rank limit r.
MlInfos(r) ==
  UNION { { [nolock |-> FALSE, num_tensors |-> n, info |-> a] :
              a \in InfoArrays(MlTensors(r),
                               UnsetTensor("ML_TENSOR_TYPE_UNKNOWN", r), n) } :
          n \in 0..MaxTensors }

\* The internal sets of a build with internal rank limit r.
GstInfos(r) ==
  UNION { { [num_tensors |-> n, info |-> a] :
              a \in InfoArrays(GstTensors(r), UnsetTensor("_NNS_END", r), n) } :
          n \in 0..MaxTensors }

\* What a destination holds before it is written: the leftovers of an
\* earlier use.
StaleTensor(type, r) ==
  [name |-> <<"o", "l", "d">>, type |-> type, dimension |-> [j \in 1..r |-> 7]]

StaleMl(r) ==
  [nolock |-> FALSE, num_tensors |-> MaxTensors,
   info |-> [i \in 1..MaxTensors |-> StaleTensor("ML_TENSOR_TYPE_INT8", r)]]

StaleGst(r) ==
  [num_tensors |-> MaxTensors,
   info |-> [i \in 1..MaxTensors |-> StaleTensor("_NNS_INT8", r)]]

NoRank == [ml |-> 0, nns |-> 0]

ConverterIdle ==
  /\ LockIdle
  /\ GateIdle
  /\ RegistryIdle
  /\ cpc = "idle"
  /\ rank = NoRank
  /\ ml_info = StaleMl(0)
  /\ gst_info = StaleGst(0)
  /\ ml_out = StaleMl(0)
  /\ created = NoCreate

\* The arguments of a call of _ml_tensors_info_create_from_gst: whether
\* ml_info and gst_info are non-null.
CreateArgs(has_ml_info, has_gst_info) ==
  [has_ml_info |-> has_ml_info, has_gst_info |-> has_gst_info,
   status |-> "none"]

\* A public set to be converted and converted back, an internal set to be
\* converted, or an internal set to create a public set from.
InitConvert ==
  /\ ValidatorIdle
  /\ LockIdle
  /\ GateIdle
  /\ RegistryIdle
  /\ rank \in RankConfigs
  /\ \/ /\ cpc = "ml"
        /\ ml_info \in MlInfos(rank.ml)
        /\ gst_info = StaleGst(rank.nns)
        /\ ml_out = StaleMl(rank.ml)
        /\ created = NoCreate
     \/ /\ cpc = "gst_src"
        /\ ml_info = StaleMl(rank.ml)
        /\ gst_info \in GstInfos(rank.nns)
        /\ ml_out = StaleMl(rank.ml)
        /\ created = NoCreate
     \/ /\ cpc = "create"
        /\ ml_info = StaleMl(rank.ml)
        /\ ml_out = NoHandle
        /\ \/ /\ created = CreateArgs(TRUE, TRUE)
              /\ gst_info \in GstInfos(rank.nns)
           \/ /\ created = CreateArgs(FALSE, TRUE)
              /\ gst_info \in {g \in GstInfos(rank.nns) : g.num_tensors <= 1}
           \/ /\ created \in {CreateArgs(hm, FALSE) : hm \in BOOLEAN}
              /\ gst_info = StaleGst(rank.nns)

\* One call of _ml_tensors_info_copy_from_ml (&gst_info, &ml_info).
CopyFromMl ==
  /\ cpc = "ml"
  /\ gst_info' = _ml_tensors_info_copy_from_ml(gst_info, ml_info)
  /\ cpc' = "gst"
  /\ UNCHANGED <<rank, ml_info, ml_out, created>>
  /\ UNCHANGED <<validator_vars, lock_vars, gate_vars, registry_vars>>

\* One call of _ml_tensors_info_copy_from_gst (&ml_out, &gst_info).
CopyFromGst ==
  /\ cpc \in {"gst", "gst_src"}
  /\ ml_out' = _ml_tensors_info_copy_from_gst(ml_out, gst_info)
  /\ cpc' = IF cpc = "gst" THEN "back" ELSE "ml_dst"
  /\ UNCHANGED <<rank, ml_info, gst_info, created>>
  /\ UNCHANGED <<validator_vars, lock_vars, gate_vars, registry_vars>>

\* One call of _ml_tensors_info_create_from_gst (&ml_out, &gst_info), or
\* with a null pointer for either argument; ml_out is the handle.
CreateFromGst ==
  /\ cpc = "create"
  /\ \E status \in CreateStatuses, failed \in FailedHandles :
       LET r == _ml_tensors_info_create_from_gst(
                  created.has_ml_info, created.has_gst_info, ml_out,
                  gst_info, status, failed)
       IN  /\ created' = [created EXCEPT !.status = r.status]
           /\ ml_out' = r.handle
  /\ cpc' = "created"
  /\ UNCHANGED <<rank, ml_info, gst_info>>
  /\ UNCHANGED <<validator_vars, lock_vars, gate_vars, registry_vars>>

NextConvert == CopyFromMl \/ CopyFromGst \/ CreateFromGst

SpecConvert == InitConvert /\ [][NextConvert]_vars


(***************************************************************************)
(* The conversion statement by statement, next to the owner of the source  *)
(***************************************************************************)

\* How many times the owner writes the source.
MaxWrites == 2

\* G_LOCK_UNLESS_NOLOCK (info) and G_UNLOCK_UNLESS_NOLOCK (info) act on the
\* lock of info unless info is flagged nolock.
G_LOCK_UNLESS_NOLOCK(info) == ~info.nolock
G_UNLOCK_UNLESS_NOLOCK(info) == ~info.nolock

\* The positions at which the conversion has passed its lock statement and
\* not yet its unlock statement.
ConvReading == {"init", "loop", "slot", "name", "type", "dim", "unlock"}

\* The slots the sets of this exploration hold.
LockTensors ==
  { [name |-> NULL, type |-> "ML_TENSOR_TYPE_FLOAT32",
     dimension |-> DimOnes(TensorRankLimit)],
    [name |-> <<"i", "n">>, type |-> "ML_TENSOR_TYPE_UINT8",
     dimension |-> DimShape(TensorRankLimit)] }

\* A public set, locking or flagged nolock, whose owner is about to write
\* it while a conversion of it starts.
InitLock ==
  /\ ValidatorIdle
  /\ GateIdle
  /\ RegistryIdle
  /\ rank = [ml |-> TensorRankLimit, nns |-> TensorRankLimit]
  /\ \E n \in 0..MaxTensors, nl \in BOOLEAN :
       ml_info \in { [nolock |-> nl, num_tensors |-> n, info |-> a] :
                       a \in InfoArrays(LockTensors,
                               UnsetTensor("ML_TENSOR_TYPE_UNKNOWN",
                                           TensorRankLimit), n) }
  /\ gst_info = StaleGst(rank.nns)
  /\ ml_out = StaleMl(rank.ml)
  /\ created = NoCreate
  /\ cpc = "lock"
  /\ lock = "free" /\ ci = 0 /\ cj = {} /\ cn = 0 /\ opc = "idle"
  /\ writes = 0 /\ seen = {}

\* G_LOCK_UNLESS_NOLOCK (*ml_info)
ConvLock ==
  /\ cpc = "lock"
  /\ IF G_LOCK_UNLESS_NOLOCK(ml_info)
     THEN lock = "free" /\ lock' = "conv"
     ELSE lock' = lock
  /\ cpc' = "init"
  /\ seen' = {ml_info}
  /\ UNCHANGED <<rank, ml_info, gst_info, ml_out, ci, cj, cn, opc, writes>>
  /\ UNCHANGED <<created, validator_vars, gate_vars, registry_vars>>

\* gst_tensors_info_init (gst_info); gst_info->num_tensors =
\* ml_info->num_tensors; i = 0.  The count is read once, after the call.
ConvInit ==
  /\ cpc = "init"
  /\ cn' = ml_info.num_tensors
  /\ gst_info' = [gst_tensors_info_init EXCEPT !.num_tensors = cn']
  /\ ci' = 0
  /\ cpc' = "loop"
  /\ UNCHANGED <<rank, ml_info, ml_out, lock, cj, opc, writes, seen>>
  /\ UNCHANGED <<created, validator_vars, gate_vars, registry_vars>>

\* The positions of the loop over the slots.
ConvInLoop == {"loop", "slot", "name", "type", "dim"}

\* The read of ml_info->num_tensors for the test of the loop.  The source
\* reads the count at every test; a build may read it earlier, or keep the
\* value it read before: an unoptimized build reads it at the test, an
\* optimized one keeps it in a register from the assignment of the count
\* on and reads it again only after a call of g_strdup.  So the count may
\* be read at any position of the loop, or not at all; the read changes
\* something only when the owner has written the count since the last one,
\* which takes a source flagged nolock.
ConvCount ==
  /\ cpc \in ConvInLoop
  /\ cn # ml_info.num_tensors
  /\ cn' = ml_info.num_tensors
  /\ UNCHANGED <<rank, ml_info, gst_info, ml_out, cpc, lock, ci, cj, opc, writes, seen>>
  /\ UNCHANGED <<created, validator_vars, gate_vars, registry_vars>>

\* i < ml_info->num_tensors, with the count as it was last read.
ConvLoop ==
  /\ cpc = "loop"
  /\ cpc' = IF ci < cn THEN "slot" ELSE "unlock"
  /\ UNCHANGED <<rank, ml_info, gst_info, ml_out, lock, ci, cj, cn, opc, writes, seen>>
  /\ UNCHANGED <<created, validator_vars, gate_vars, registry_vars>>

\* if (ml_info->info[i].name): the first read of the name.
ConvNameTest ==
  /\ cpc = "slot"
  /\ cpc' = IF ml_info.info[ci + 1].name # NULL THEN "name" ELSE "type"
  /\ UNCHANGED <<rank, ml_info, gst_info, ml_out, lock, ci, cj, cn, opc, writes, seen>>
  /\ UNCHANGED <<created, validator_vars, gate_vars, registry_vars>>

\* gst_info->info[i].name = g_strdup (ml_info->info[i].name): the second
\* read of the name; g_strdup of a null pointer is the null pointer.  No
\* build keeps a value of the source across the call: the count is read
\* again after it, here or later.
ConvName ==
  /\ cpc = "name"
  /\ gst_info' = [gst_info EXCEPT
                    !.info[ci + 1].name = g_strdup(ml_info.info[ci + 1].name)]
  /\ cn' = ml_info.num_tensors
  /\ cpc' = "type"
  /\ UNCHANGED <<rank, ml_info, ml_out, lock, ci, cj, opc, writes, seen>>
  /\ UNCHANGED <<created, validator_vars, gate_vars, registry_vars>>

\* switch (ml_info->info[i].type)
ConvType ==
  /\ cpc = "type"
  /\ gst_info' = [gst_info EXCEPT
                    !.info[ci + 1].type = GstTypeFromMl(ml_info.info[ci + 1].type)]
  /\ cj' = {}
  /\ cpc' = "dim"
  /\ UNCHANGED <<rank, ml_info, ml_out, lock, ci, cn, opc, writes, seen>>
  /\ UNCHANGED <<created, validator_vars, gate_vars, registry_vars>>

\* The values of j of the first dimension loop.
CommonDims == 0..(MIN(ML_TENSOR_RANK_LIMIT, NNS_TENSOR_RANK_LIMIT) - 1)

\* The owner can still write the source while the conversion reads it: the
\* source takes no lock and the owner is in a write or has one left.
ReadsRace ==
  /\ ~G_LOCK_UNLESS_NOLOCK(ml_info)
  /\ (opc = "write" \/ writes < MaxWrites)

\* The values of j the next copy of the first dimension loop may take.
\* The loop has no call and no dependence between its passes, so a build
\* is free to order the reads of the source: an unoptimized one reads j =
\* 0, 1, 2, 3, an optimized one 1, 2, 0, 3.  When the reads race with a
\* write of the owner, j is any value not yet copied; when no write can
\* fall between them the order cannot be observed and j is the least
\* value not yet copied, as in the source.
NextDims ==
  IF ReadsRace
  THEN CommonDims \ cj
  ELSE {j \in CommonDims \ cj : \A k \in CommonDims \ cj : j <= k}

\* One copy of the first dimension loop:
\* gst_info->info[i].dimension[j] = ml_info->info[i].dimension[j]
ConvDim ==
  /\ cpc = "dim"
  /\ \E j \in NextDims :
       /\ gst_info' = [gst_info EXCEPT
                         !.info[ci + 1].dimension[j + 1] =
                            ml_info.info[ci + 1].dimension[j + 1]]
       /\ cj' = cj \cup {j}
  /\ UNCHANGED <<rank, ml_info, ml_out, cpc, lock, ci, cn, opc, writes, seen>>
  /\ UNCHANGED <<created, validator_vars, gate_vars, registry_vars>>

\* The second dimension loop, which reads nothing of the source, and i++.
ConvPad ==
  /\ cpc = "dim"
  /\ cj = CommonDims
  /\ gst_info' = [gst_info EXCEPT
                    !.info[ci + 1].dimension =
                       [j \in 1..NNS_TENSOR_RANK_LIMIT |->
                          IF j - 1 \in CommonDims
                          THEN gst_info.info[ci + 1].dimension[j]
                          ELSE 1]]
  /\ ci' = ci + 1
  /\ cj' = {}
  /\ cpc' = "loop"
  /\ UNCHANGED <<rank, ml_info, ml_out, lock, cn, opc, writes, seen>>
  /\ UNCHANGED <<created, validator_vars, gate_vars, registry_vars>>

\* G_UNLOCK_UNLESS_NOLOCK (*ml_info), and the return.
ConvUnlock ==
  /\ cpc = "unlock"
  /\ lock' = IF G_UNLOCK_UNLESS_NOLOCK(ml_info) THEN "free" ELSE lock
  /\ cpc' = "done"
  /\ UNCHANGED <<rank, ml_info, gst_info, ml_out, ci, cj, cn, opc, writes, seen>>
  /\ UNCHANGED <<created, validator_vars, gate_vars, registry_vars>>

\* The owner enters one of its setters: G_LOCK_UNLESS_NOLOCK (*info).
OwnerLock ==
  /\ opc = "idle"
  /\ writes < MaxWrites
  /\ IF G_LOCK_UNLESS_NOLOCK(ml_info)
     THEN lock = "free" /\ lock' = "owner"
     ELSE lock' = lock
  /\ opc' = "write"
  /\ UNCHANGED <<rank, ml_info, gst_info, ml_out, cpc, ci, cj, cn, writes, seen>>
  /\ UNCHANGED <<created, validator_vars, gate_vars, registry_vars>>

\* What a setter may leave in the set: another count, or another tensor in
\* one slot.
OwnerWrites(info) ==
  { [info EXCEPT !.num_tensors = n] : n \in 0..MaxTensors }
    \cup
  { [info EXCEPT !.info[k] = t] : k \in 1..MaxTensors, t \in LockTensors }

\* The setter writes the set.  For a set flagged nolock
\* G_UNLOCK_UNLESS_NOLOCK does nothing, and the setter has returned.
OwnerWrite ==
  /\ opc = "write"
  /\ ml_info' \in OwnerWrites(ml_info) \ {ml_info}
  /\ writes' = writes + 1
  /\ seen' = IF cpc \in ConvReading THEN seen \cup {ml_info'} ELSE seen
  /\ opc' = IF G_UNLOCK_UNLESS_NOLOCK(ml_info) THEN "unlock" ELSE "idle"
  /\ UNCHANGED <<rank, gst_info, ml_out, cpc, lock, ci, cj, cn>>
  /\ UNCHANGED <<created, validator_vars, gate_vars, registry_vars>>

\* The setter returns: G_UNLOCK_UNLESS_NOLOCK (*info).
OwnerUnlock ==
  /\ opc = "unlock"
  /\ lock' = IF G_UNLOCK_UNLESS_NOLOCK(ml_info) THEN "free" ELSE lock
  /\ opc' = "idle"
  /\ UNCHANGED <<rank, ml_info, gst_info, ml_out, cpc, ci, cj, cn, writes, seen>>
  /\ UNCHANGED <<created, validator_vars, gate_vars, registry_vars>>

NextLock ==
  \/ ConvLock \/ ConvInit \/ ConvCount \/ ConvLoop
  \/ ConvNameTest \/ ConvName \/ ConvType \/ ConvDim \/ ConvPad
  \/ ConvUnlock
  \/ OwnerLock \/ OwnerWrite \/ OwnerUnlock

SpecLock == InitLock /\ [][NextLock]_vars


(***************************************************************************)
(* Element availability gate                                               *)
(***************************************************************************)

\* The threads that call ml_check_element_availability, and the calls they
\* make in all.
NumThreads == 2
MaxCalls == 3

Threads == 1..NumThreads

E_tensor_filter == <<"t", "e", "n", "s", "o", "r", "_", "f", "i", "l", "t", "e", "r">>
E_tensor_x == <<"t", "e", "n", "s", "o", "r", "_", "x">>
E_edgesink == <<"e", "d", "g", "e", "s", "i", "n", "k">>
E_queue == <<"q", "u", "e", "u", "e">>
E_identity == <<"i", "d", "e", "n", "t", "i", "t", "y">>
E_appsrc == <<"a", "p", "p", "s", "r", "c">>
E_nosuch == <<"n", "o", "s", "u", "c", "h">>

\* The element names a call may pass.
ElementNames ==
  {E_tensor_filter, E_tensor_x, E_edgesink, E_queue, E_identity, E_appsrc,
   E_nosuch, NULL}

\* The registry of the pipeline engine: gst_element_factory_find (name)
\* finds a factory for these names.
RegisteredElements ==
  {E_tensor_filter, E_tensor_x, E_edgesink, E_queue, E_identity, E_appsrc}

\* gst_plugin_feature_get_plugin_name of the factory of a registered
\* element; null for an element registered without a plugin.
PluginNameOf(element_name) ==
  CASE element_name = E_tensor_filter ->
         <<"n", "n", "s", "t", "r", "e", "a", "m", "e", "r">>
    [] element_name = E_tensor_x -> <<"o", "t", "h", "e", "r">>
    [] element_name = E_edgesink ->
         <<"n", "n", "s", "t", "r", "e", "a", "m", "e", "r", "-", "e", "d", "g", "e">>
    [] element_name \in {E_queue, E_identity} ->
         <<"c", "o", "r", "e", "e", "l", "e", "m", "e", "n", "t", "s">>
    [] OTHER -> NULL

\* The values of the key restricted_elements that are explored: not set,
\* empty, "queue, tensor_x;edgesink", and "QUEUE", which names an element
\* in another case than the registry does.
RestrictedElementsValues ==
  { NULL, <<>>,
    <<"q", "u", "e", "u", "e", ",", " ", "t", "e", "n", "s", "o", "r", "_", "x",
      ";", "e", "d", "g", "e", "s", "i", "n", "k">>,
    <<"Q", "U", "E", "U", "E">> }

\* g_strsplit_set (string, delimiters, -1) for a string that is not empty:
\* the text before the first delimiter, then the split of the text after
\* it; a string without delimiter is one token, also when it is empty.
RECURSIVE SplitTokens(_, _)
SplitTokens(string, delimiters) ==
  IF \E k \in 1..Len(string) : string[k] \in delimiters
  THEN LET k == CHOOSE k \in 1..Len(string) :
                  /\ string[k] \in delimiters
                  /\ \A m \in 1..(k - 1) : string[m] \notin delimiters
       IN  <<SubSeq(string, 1, k - 1)>>
             \o SplitTokens(SubSeq(string, k + 1, Len(string)), delimiters)
  ELSE <<string>>

\* g_strsplit_set (string, delimiters, -1): the empty string splits into
\* the empty vector.
g_strsplit_set(string, delimiters) ==
  IF string = <<>> THEN <<>> ELSE SplitTokens(string, delimiters)

\* _ml_check_plugin_availability without the null test of
\* restricted_elements: a list that was never set restricts everything.
CheckRestriction_NullListRestricts(plugin_name, element_name, list) ==
  IF /\ g_str_has_prefix(plugin_name, <<"n", "n", "s", "t", "r", "e", "a", "m", "e", "r">>)
     /\ g_str_has_prefix(element_name, <<"t", "e", "n", "s", "o", "r", "_">>)
  THEN ML_ERROR_NONE
  ELSE IF find_key_strv(list.strv, element_name) < 0
  THEN ML_ERROR_NOT_SUPPORTED
  ELSE ML_ERROR_NONE

\* _ml_check_plugin_availability with the restricted list tested before the
\* first-party prefixes.
CheckRestriction_ListFirst(plugin_name, element_name, list) ==
  IF ~list.null /\ find_key_strv(list.strv, element_name) < 0
  THEN ML_ERROR_NOT_SUPPORTED
  ELSE ML_ERROR_NONE

\* The end of _ml_check_plugin_availability, from the test of the
\* first-party prefixes on: list is the value read from restricted_elements.
CheckRestriction(plugin_name, element_name, list) ==
  IF /\ g_str_has_prefix(plugin_name, <<"n", "n", "s", "t", "r", "e", "a", "m", "e", "r">>)
     /\ g_str_has_prefix(element_name, <<"t", "e", "n", "s", "o", "r", "_">>)
  THEN ML_ERROR_NONE
  ELSE IF ~list.null /\ find_key_strv(list.strv, element_name) < 0
  THEN ML_ERROR_NOT_SUPPORTED
  ELSE ML_ERROR_NONE

\* A thread outside any call.
NoThreadCall ==
  [pc |-> "idle", element_name |-> NULL, has_available |-> FALSE,
   status |-> "none", available |-> "unset"]

\* The configuration and the engine, fixed for the life of the process, and
\* the statics before the first call.
InitGate ==
  /\ ValidatorIdle
  /\ RegistryIdle
  /\ cpc = "idle" /\ rank = NoRank /\ ml_info = StaleMl(0)
  /\ gst_info = StaleGst(0) /\ ml_out = StaleMl(0) /\ created = NoCreate
  /\ LockIdle
  /\ conf \in { [enable |-> en, elements |-> el, gst_ok |-> ok] :
                  en \in BOOLEAN, el \in RestrictedElementsValues,
                  ok \in BOOLEAN }
  /\ list_loaded = FALSE
  /\ restricted_elements = NullStrv
  /\ th = [t \in Threads |-> NoThreadCall]
  /\ calls = 0
  /\ loads = 0

\* check_feature_state (): the macro is defined outside this file and the
\* contract of the gate names no feature check, so it is the empty
\* statement: the call goes on to the tests of its arguments.
check_feature_state == ML_ERROR_NONE

\* ml_check_element_availability with _ml_initialize_gstreamer () called
\* before the arguments are tested.
CallBegin_EngineFirst(t, element_name, has_available) ==
  LET call == [pc |-> "done", element_name |-> element_name,
               has_available |-> has_available,
               status |-> "none", available |-> "unset"]
  IN  IF check_feature_state # ML_ERROR_NONE
      THEN [call EXCEPT !.status = check_feature_state]
      ELSE IF ~conf.gst_ok
      THEN [call EXCEPT !.status = ML_ERROR_STREAMS_PIPE]
      ELSE IF element_name = NULL \/ ~has_available
      THEN [call EXCEPT !.status = ML_ERROR_INVALID_PARAMETER]
      ELSE IF element_name \notin RegisteredElements
      THEN [call EXCEPT !.status = ML_ERROR_NONE, !.available = FALSE]
      ELSE IF PluginNameOf(element_name) = NULL
      THEN [call EXCEPT !.status = ML_ERROR_NONE, !.available = FALSE]
      ELSE [call EXCEPT !.pc = "test_loaded", !.available = FALSE]

\* ml_check_element_availability with an element the registry does not
\* hold treated as an error of the caller.
CallBegin_AbsentIsError(t, element_name, has_available) ==
  LET call == [pc |-> "done", element_name |-> element_name,
               has_available |-> has_available,
               status |-> "none", available |-> "unset"]
  IN  IF check_feature_state # ML_ERROR_NONE
      THEN [call EXCEPT !.status = check_feature_state]
      ELSE IF element_name = NULL \/ ~has_available
      THEN [call EXCEPT !.status = ML_ERROR_INVALID_PARAMETER]
      ELSE IF ~conf.gst_ok
      THEN [call EXCEPT !.status = ML_ERROR_STREAMS_PIPE]
      ELSE IF element_name \notin RegisteredElements
      THEN [call EXCEPT !.status = ML_ERROR_INVALID_PARAMETER,
                        !.available = FALSE]
      ELSE IF PluginNameOf(element_name) = NULL
      THEN [call EXCEPT !.status = ML_ERROR_NONE, !.available = FALSE]
      ELSE [call EXCEPT !.pc = "test_loaded", !.available = FALSE]

\* ml_check_element_availability (element_name, available) from its entry
\* to the test of list_loaded in _ml_check_plugin_availability, or to its
\* return when it does not get that far.  The record of the call keeps
\* what the call has stored through available: "unset" until line 509.
CallBegin(t, element_name, has_available) ==
  LET call == [pc |-> "done", element_name |-> element_name,
               has_available |-> has_available,
               status |-> "none", available |-> "unset"]
  IN  IF check_feature_state # ML_ERROR_NONE
      THEN [call EXCEPT !.status = check_feature_state]
      ELSE IF element_name = NULL \/ ~has_available
      THEN [call EXCEPT !.status = ML_ERROR_INVALID_PARAMETER]
      ELSE IF ~conf.gst_ok
      THEN [call EXCEPT !.status = ML_ERROR_STREAMS_PIPE]
      ELSE IF element_name \notin RegisteredElements
      THEN [call EXCEPT !.status = ML_ERROR_NONE, !.available = FALSE]
      ELSE IF PluginNameOf(element_name) = NULL
      THEN [call EXCEPT !.status = ML_ERROR_NONE, !.available = FALSE]
      ELSE [call EXCEPT !.pc = "test_loaded", !.available = FALSE]

CheckElementAvailability(t) ==
  /\ th[t].pc = "idle"
  /\ calls < MaxCalls
  /\ \E e \in ElementNames, ha \in BOOLEAN :
       th' = [th EXCEPT ![t] = CallBegin(t, e, ha)]
  /\ calls' = calls + 1
  /\ UNCHANGED <<conf, list_loaded, restricted_elements, loads>>
  /\ UNCHANGED <<validator_vars, converter_vars, lock_vars, registry_vars>>

\* if (!list_loaded)
TestListLoaded(t) ==
  /\ th[t].pc = "test_loaded"
  /\ th' = [th EXCEPT ![t].pc = IF ~list_loaded THEN "load" ELSE "decide"]
  /\ UNCHANGED <<conf, list_loaded, restricted_elements, calls, loads>>
  /\ UNCHANGED <<validator_vars, converter_vars, lock_vars, registry_vars>>

\* The load step with the split run on whatever the configuration gave:
\* without a restricted_elements value the list becomes the empty vector.
LoadList_EmptyWhenUnset(t) ==
  /\ th[t].pc = "load"
  /\ restricted_elements' =
       IF conf.enable
       THEN IF conf.elements # NULL
            THEN Strv(g_strsplit_set(conf.elements, {" ", ",", ";"}))
            ELSE Strv(<<>>)
       ELSE restricted_elements
  /\ loads' = loads + 1
  /\ th' = [th EXCEPT ![t].pc = "set_loaded"]
  /\ UNCHANGED <<conf, list_loaded, calls>>
  /\ UNCHANGED <<validator_vars, converter_vars, lock_vars, registry_vars>>

\* The load step: the two reads of the configuration and the write of
\* restricted_elements.
LoadList(t) ==
  /\ th[t].pc = "load"
  /\ restricted_elements' =
       IF conf.enable /\ conf.elements # NULL
       THEN Strv(g_strsplit_set(conf.elements, {" ", ",", ";"}))
       ELSE restricted_elements
  /\ loads' = loads + 1
  /\ th' = [th EXCEPT ![t].pc = "set_loaded"]
  /\ UNCHANGED <<conf, list_loaded, calls>>
  /\ UNCHANGED <<validator_vars, converter_vars, lock_vars, registry_vars>>

\* list_loaded = TRUE
SetListLoaded(t) ==
  /\ th[t].pc = "set_loaded"
  /\ list_loaded' = TRUE
  /\ th' = [th EXCEPT ![t].pc = "decide"]
  /\ UNCHANGED <<conf, restricted_elements, calls, loads>>
  /\ UNCHANGED <<validator_vars, converter_vars, lock_vars, registry_vars>>

\* The rest of _ml_check_plugin_availability and the return of
\* ml_check_element_availability.
Decide(t) ==
  /\ th[t].pc = "decide"
  /\ LET status == CheckRestriction(PluginNameOf(th[t].element_name),
                                    th[t].element_name, restricted_elements)
     IN  th' = [th EXCEPT ![t].pc = "done",
                          ![t].status = ML_ERROR_NONE,
                          ![t].available = (status = ML_ERROR_NONE)]
  /\ UNCHANGED <<conf, list_loaded, restricted_elements, calls, loads>>
  /\ UNCHANGED <<validator_vars, converter_vars, lock_vars, registry_vars>>

\* The caller has taken the result and is ready for another call.
CallEnd(t) ==
  /\ th[t].pc = "done"
  /\ th' = [th EXCEPT ![t] = NoThreadCall]
  /\ UNCHANGED <<conf, list_loaded, restricted_elements, calls, loads>>
  /\ UNCHANGED <<validator_vars, converter_vars, lock_vars, registry_vars>>

NextGate ==
  \E t \in Threads :
    \/ CheckElementAvailability(t)
    \/ TestListLoaded(t)
    \/ LoadList(t)
    \/ SetListLoaded(t)
    \/ Decide(t)
    \/ CallEnd(t)

SpecGate == InitGate /\ [][NextGate]_vars


(***************************************************************************)
(* The lookups of the registry that are explored                           *)
(***************************************************************************)

\* str in capitals, and str with a capital first letter.
AsciiUp(c) ==
  IF \E k \in 1..Len(LowerChars) : LowerChars[k] = c
  THEN UpperChars[CHOOSE k \in 1..Len(LowerChars) : LowerChars[k] = c]
  ELSE c

AllCapitals(str) == [k \in 1..Len(str) |-> AsciiUp(str[k])]
Capitalized(str) == [k \in 1..Len(str) |-> IF k = 1 THEN AsciiUp(str[k]) ELSE str[k]]

\* The names of the frameworks: those of the table and "snap".
FrameworkNames ==
  {ml_nnfw_subplugin_name[k] : k \in 1..Len(ml_nnfw_subplugin_name)} \cup {S_snap}

\* The names that are resolved: no name, the empty name, and every
\* framework name as it is, in capitals, capitalized, with one character
\* more and with one character less.
ResolvedNames ==
  {NULL, <<>>, <<"u", "n", "k", "n", "o", "w", "n", "-", "f", "w">>}
    \cup FrameworkNames
    \cup {AllCapitals(n) : n \in FrameworkNames}
    \cup {Capitalized(n) : n \in FrameworkNames}
    \cup {Append(n, "x") : n \in FrameworkNames}
    \cup {SubSeq(n, 1, Len(n) - 1) : n \in FrameworkNames}

\* A name to resolve, or a framework id whose name is looked up and then
\* resolved.
InitRegistry ==
  /\ ValidatorIdle
  /\ cpc = "idle" /\ rank = NoRank /\ ml_info = StaleMl(0)
  /\ gst_info = StaleGst(0) /\ ml_out = StaleMl(0) /\ created = NoCreate
  /\ LockIdle
  /\ GateIdle
  /\ r_type = "none"
  /\ \/ rpc = "resolve" /\ r_id = "none" /\ r_name \in ResolvedNames
     \/ rpc = "lookup" /\ r_id \in NnfwTypes /\ r_name = <<>>

\* One call of _ml_get_nnfw_subplugin_name (r_id).
GetNnfwSubpluginName ==
  /\ rpc = "lookup"
  /\ r_name' = _ml_get_nnfw_subplugin_name(r_id)
  /\ rpc' = "resolve"
  /\ UNCHANGED <<r_id, r_type>>
  /\ UNCHANGED <<validator_vars, converter_vars, lock_vars, gate_vars>>

\* One call of _ml_get_nnfw_type_by_subplugin_name (r_name).
GetNnfwTypeBySubpluginName ==
  /\ rpc = "resolve"
  /\ r_type' = _ml_get_nnfw_type_by_subplugin_name(r_name)
  /\ rpc' = "done"
  /\ UNCHANGED <<r_id, r_name>>
  /\ UNCHANGED <<validator_vars, converter_vars, lock_vars, gate_vars>>

NextRegistry == GetNnfwSubpluginName \/ GetNnfwTypeBySubpluginName

SpecRegistry == InitRegistry /\ [][NextRegistry]_vars

(***************************************************************************)
(* The calls of the validator that are explored                            *)
(***************************************************************************)

\* The longest path array a call passes.
MaxModels == 3

\* What model[0] may be, what model[1] may be, and what the entries after
\* these may be.
FirstPaths == {P_bin, P_BIN, P_onnx, P_tflite, P_noext, P_dir, P_dirext, P_gone, NULL}
LaterPaths == {P_bin, P_noext, P_gone, P_dir, NULL}
TailPaths == {P_bin, P_noext, NULL}

RECURSIVE ModelArrays(_)
ModelArrays(n) ==
  IF n = 0 THEN {<<>>}
  ELSE IF n = 1 THEN {<<p>> : p \in FirstPaths}
  ELSE IF n = 2 THEN {Append(m, p) : m \in ModelArrays(1), p \in LaterPaths}
  ELSE {Append(m, p) : m \in ModelArrays(n - 1), p \in TailPaths}

\* What gst_tensor_filter_detect_framework may return: no name, the name of
\* any framework, "snap" in either case, or a name the registry does not know.
DetectedNames ==
  {NULL, <<"u", "n", "k", "n", "o", "w", "n", "-", "f", "w">>, S_snap,
   <<"S", "N", "A", "P">>}
    \cup {ml_nnfw_subplugin_name[k] : k \in 1..Len(ml_nnfw_subplugin_name)}

\* The answers of the plugin system that are explored: two complementary
\* sets of available frameworks.
AvailableSets ==
  LET some == {"ML_NNFW_TYPE_NNFW", "ML_NNFW_TYPE_TENSORFLOW_LITE",
               "ML_NNFW_TYPE_VD_AIFW", "ML_NNFW_TYPE_SNAP",
               "ML_NNFW_TYPE_MVNC", "ML_NNFW_TYPE_CUSTOM_FILTER",
               "ML_NNFW_TYPE_PYTORCH", "ML_NNFW_TYPE_SNPE"}
  IN  {some, (NnfwTypes \ some) \ {"ML_NNFW_TYPE_ANY"}}

\* The arguments of one call. has_model and has_nnfw tell whether the
\* pointers model and nnfw are non-null; nnfw is the value of *nnfw.
ValidateArg(hm, m, hn, f) ==
  [has_model |-> hm, model |-> m, num_models |-> Len(m),
   has_nnfw |-> hn, nnfw |-> f]

\* Calls with both pointers given, and calls with model or nnfw null.
ValidateArgs ==
  { ValidateArg(TRUE, m, TRUE, f) :
      m \in UNION {ModelArrays(n) : n \in 0..MaxModels}, f \in NnfwTypes }
    \cup
  { ValidateArg(FALSE, <<>>, TRUE, f) : f \in NnfwTypes }
    \cup
  { ValidateArg(TRUE, m, FALSE, "ML_NNFW_TYPE_ANY") : m \in ModelArrays(1) }

\* The arguments of one call and the environment it runs in: fw_name is the
\* answer of the detection, available the answer of the plugin system, and
\* android tells whether the build defines __ANDROID__.
ValidateCall(arg, d, av, an) ==
  [has_model |-> arg.has_model, model |-> arg.model,
   num_models |-> arg.num_models, has_nnfw |-> arg.has_nnfw,
   nnfw |-> arg.nnfw, fw_name |-> d, available |-> av, android |-> an]

InitValidate ==
  /\ vpc = "call"
  /\ vin \in ValidateArgs
  /\ vout = NoResult
  /\ ConverterIdle

\* One call of _ml_validate_model_file, from entry to return, in one of the
\* environments; vin keeps the environment the call ran in.
ValidateModelFile ==
  /\ vpc = "call"
  /\ \E d \in DetectedNames, av \in AvailableSets, an \in BOOLEAN :
       LET a == ValidateCall(vin, d, av, an)
       IN  /\ vin' = a
           /\ vout' = _ml_validate_model_file(a)
  /\ vpc' = "done"
  /\ UNCHANGED <<converter_vars, lock_vars, gate_vars, registry_vars>>

NextValidate == ValidateModelFile

SpecValidate == InitValidate /\ [][NextValidate]_vars

(***************************************************************************)
(* Properties of the validator                                             *)
(***************************************************************************)

\* The call has returned (or has ended in a fault).
ValidateReturned == vpc = "done"

\* The framework the detected name resolves to.
DetectedFw == _ml_get_nnfw_type_by_subplugin_name(vin.fw_name)

\* The path set passes the path checks: it is given and not empty, and its
\* first path is a directory or every path is an existing regular file.
PathChecksPass ==
  /\ vin.has_model
  /\ vin.num_models >= 1
  /\ \/ (vin.model[1] # NULL /\ FileKind(vin.model[1]) = "dir")
     \/ \A i \in 1..vin.num_models :
          vin.model[i] # NULL /\ FileKind(vin.model[i]) = "regular"

FirstPathIsDir ==
  vin.has_model /\ vin.num_models >= 1
    /\ vin.model[1] # NULL /\ FileKind(vin.model[1]) = "dir"

\* Path p carries an extension.
HasExtension(p) == p # NULL /\ \E k \in 1..Len(p) : p[k] = "."

\* The lowercased text of p from its last '.'.
LowercasedExtension(p) ==
  LET dots == {k \in 1..Len(p) : p[k] = "."}
      last == CHOOSE k \in dots : \A m \in dots : m <= k
  IN  g_ascii_strdown(SubSeq(p, last, Len(p)))

\* The call is in the mismatched case: the requested framework is not Any,
\* the directory rule does not reject and detection gave another framework.
MismatchCase ==
  /\ vin.has_nnfw /\ PathChecksPass
  /\ vin.nnfw # "ML_NNFW_TYPE_ANY"
  /\ ~(FirstPathIsDir /\ vin.nnfw # "ML_NNFW_TYPE_NNFW")
  /\ DetectedFw # vin.nnfw

\* C2: with Any requested on a path set that passed the path checks, a
\* detected framework other than Any is adopted into *nnfw and reaches
\* "done:" with no error, whatever the extensions are; with nothing or an
\* unknown name detected the call fails with InvalidParameter.
C2_AnyAdoptsDetected ==
  (ValidateReturned /\ vin.has_nnfw /\ vin.nnfw = "ML_NNFW_TYPE_ANY"
     /\ PathChecksPass)
    => IF DetectedFw # "ML_NNFW_TYPE_ANY"
       THEN /\ vout.nnfw = DetectedFw
            /\ vout.at_done = ML_ERROR_NONE
            /\ vout.status \in {ML_ERROR_NONE, ML_ERROR_NOT_SUPPORTED}
       ELSE vout.status = ML_ERROR_INVALID_PARAMETER

\* Any requested, a path without extension, tensorflow-lite detected and
\* adopted.
C2_Witness ==
  /\ ValidateReturned /\ vin.has_nnfw /\ vin.nnfw = "ML_NNFW_TYPE_ANY"
  /\ vin.has_model /\ vin.model = <<P_noext>>
  /\ DetectedFw = "ML_NNFW_TYPE_TENSORFLOW_LITE"
  /\ vout.nnfw = "ML_NNFW_TYPE_TENSORFLOW_LITE"
  /\ vout.status = ML_ERROR_NONE

\* C3 as stated: with a directory as first path, every requested framework
\* other than NNFW is rejected with InvalidParameter.
C3_DirectoryRejectsAllButNnfw ==
  (ValidateReturned /\ vin.has_nnfw /\ FirstPathIsDir
     /\ vin.nnfw # "ML_NNFW_TYPE_NNFW")
    => vout.status = ML_ERROR_INVALID_PARAMETER

\* C3 as amended: with a directory as first path, every requested framework
\* other than NNFW and Any is rejected with InvalidParameter, whatever is
\* detected and whatever is available.
C3_DirectoryRejectsNamedButNnfw ==
  (ValidateReturned /\ vin.has_nnfw /\ FirstPathIsDir
     /\ vin.nnfw \notin {"ML_NNFW_TYPE_NNFW", "ML_NNFW_TYPE_ANY"})
    => /\ vout.status = ML_ERROR_INVALID_PARAMETER
       /\ vout.nnfw = vin.nnfw

\* A directory, tensorflow-lite requested, detected and available, rejected.
C3_Witness ==
  /\ ValidateReturned /\ vin.has_nnfw /\ FirstPathIsDir
  /\ vin.nnfw = "ML_NNFW_TYPE_TENSORFLOW_LITE"
  /\ DetectedFw = vin.nnfw
  /\ vin.nnfw \in vin.available
  /\ vout.status = ML_ERROR_INVALID_PARAMETER

\* C4: the call succeeds only with a framework in *nnfw that is not Any and
\* is reported available, and a call that reaches "done:" without error
\* while that framework is not available fails with NotSupported.
C4_AvailabilityGate ==
  ValidateReturned
    => /\ vout.status = ML_ERROR_NONE
            => (vout.nnfw # "ML_NNFW_TYPE_ANY" /\ vout.nnfw \in vin.available)
       /\ (vout.at_done = ML_ERROR_NONE /\ vout.nnfw \notin vin.available)
            => vout.status = ML_ERROR_NOT_SUPPORTED

\* A request that matches the detection and whose framework is not
\* available: NotSupported.
C4_Witness ==
  /\ ValidateReturned
  /\ vout.at_done = ML_ERROR_NONE
  /\ vout.nnfw \notin vin.available
  /\ vout.status = ML_ERROR_NOT_SUPPORTED

\* The allow-list of the two frameworks that have one.
AllowedExtensions(nnfw) ==
  IF nnfw = "ML_NNFW_TYPE_VD_AIFW"
  THEN { <<".", "n", "b">>, <<".", "n", "c", "p">>, <<".", "b", "i", "n">> }
  ELSE { <<".", "c", "a", "f", "f", "e", "m", "o", "d", "e", "l">>,
         <<".", "t", "f", "l", "i", "t", "e">>, <<".", "p", "b">>,
         <<".", "p", "r", "o", "t", "o", "t", "x", "t">> }

\* The extension of the first path is on the allow-list of nnfw.
FirstExtensionAllowed(nnfw) ==
  /\ HasExtension(vin.model[1])
  /\ LowercasedExtension(vin.model[1]) \in AllowedExtensions(nnfw)

\* C5 as stated: in the mismatched case a request for VD_AIFW or ARMNN
\* passes extension validation iff the lowercased extension of the first
\* path is on the framework's list, and fails with InvalidParameter
\* otherwise.
C5_AllowListDecides ==
  (ValidateReturned /\ MismatchCase
     /\ vin.nnfw \in {"ML_NNFW_TYPE_VD_AIFW", "ML_NNFW_TYPE_ARMNN"})
    => IF FirstExtensionAllowed(vin.nnfw)
       THEN vout.at_done = ML_ERROR_NONE
       ELSE vout.status = ML_ERROR_INVALID_PARAMETER

\* C5 as amended: the same, for path sets in which every path carries an
\* extension.
C5_AllowListDecidesWithExtensions ==
  (ValidateReturned /\ MismatchCase
     /\ vin.nnfw \in {"ML_NNFW_TYPE_VD_AIFW", "ML_NNFW_TYPE_ARMNN"}
     /\ \A i \in 1..vin.num_models : HasExtension(vin.model[i]))
    => IF FirstExtensionAllowed(vin.nnfw)
       THEN /\ vout.at_done = ML_ERROR_NONE
            /\ vout.status \in {ML_ERROR_NONE, ML_ERROR_NOT_SUPPORTED}
       ELSE vout.status = ML_ERROR_INVALID_PARAMETER

\* VD_AIFW requested and available, nothing detected, "MODEL.BIN" accepted.
C5_Witness ==
  /\ ValidateReturned /\ MismatchCase
  /\ vin.nnfw = "ML_NNFW_TYPE_VD_AIFW"
  /\ vin.model = <<P_BIN>>
  /\ vout.status = ML_ERROR_NONE

\* C10: on success *nnfw holds the resolved framework, and on every failure
\* return it still holds the value the caller passed in.
C10_AllOrNothing ==
  (ValidateReturned /\ vin.has_nnfw)
    => /\ vout.status = ML_ERROR_NONE
            => vout.nnfw = (IF vin.nnfw = "ML_NNFW_TYPE_ANY"
                            THEN DetectedFw ELSE vin.nnfw)
       /\ vout.status \in {ML_ERROR_INVALID_PARAMETER, ML_ERROR_NOT_SUPPORTED}
            => vout.nnfw = vin.nnfw

\* C11: when the first path is not a directory and some path is missing
\* or is not a regular file, the call fails with InvalidParameter in the
\* path checks, before detection, whatever framework is requested.
C11_EveryPathRegular ==
  (ValidateReturned /\ vin.has_nnfw /\ vin.has_model /\ vin.num_models >= 1
     /\ ~FirstPathIsDir
     /\ \E i \in 1..vin.num_models :
          vin.model[i] # NULL /\ FileKind(vin.model[i]) # "regular")
    => /\ vout.status = ML_ERROR_INVALID_PARAMETER
       /\ vout.at = "paths"
       /\ vout.nnfw = vin.nnfw

\* NNFW requested, detected and available; the first path is a regular
\* file, the second is missing; rejected in the path checks.
C11_Witness ==
  /\ ValidateReturned /\ vin.has_nnfw
  /\ vin.nnfw = "ML_NNFW_TYPE_NNFW" /\ DetectedFw = "ML_NNFW_TYPE_NNFW"
  /\ vin.nnfw \in vin.available
  /\ vin.has_model /\ vin.model = <<P_bin, P_gone>>
  /\ vout.status = ML_ERROR_INVALID_PARAMETER
  /\ vout.at = "paths"

\* C12: a path set that is not given, is empty or holds a null entry at
\* any index is rejected with InvalidParameter, also behind a directory.
C12_NullOrEmptyRejected ==
  (ValidateReturned /\ vin.has_nnfw
     /\ (~vin.has_model \/ vin.num_models < 1
           \/ \E i \in 1..vin.num_models : vin.model[i] = NULL))
    => vout.status = ML_ERROR_INVALID_PARAMETER

\* The call is in the matched case: the requested framework is not Any,
\* the directory rule does not reject and detection gave that framework.
MatchCase ==
  /\ vin.has_nnfw /\ PathChecksPass
  /\ vin.nnfw # "ML_NNFW_TYPE_ANY"
  /\ ~(FirstPathIsDir /\ vin.nnfw # "ML_NNFW_TYPE_NNFW")
  /\ DetectedFw = vin.nnfw

\* C13: in the matched case the call reaches "done:" from the match branch
\* with no error, extension validation is not run, and the result is
\* success when the framework is available and NotSupported when not.
C13_MatchSkipsExtensions ==
  (ValidateReturned /\ MatchCase)
    => /\ vout.at = "match"
       /\ vout.at_done = ML_ERROR_NONE
       /\ vout.nnfw = vin.nnfw
       /\ vout.status = IF vin.nnfw \in vin.available
                        THEN ML_ERROR_NONE ELSE ML_ERROR_NOT_SUPPORTED

\* TENSORFLOW, for which the switch has no case, requested, detected and
\* available, on a path without extension: accepted.
C13_Witness ==
  /\ ValidateReturned /\ MatchCase
  /\ vin.nnfw = "ML_NNFW_TYPE_TENSORFLOW"
  /\ vin.model = <<P_noext>>
  /\ vout.status = ML_ERROR_NONE

\* C14: in the mismatched case, a path without '.' at any index makes the
\* call fail with InvalidParameter from the file_ext[] loop, for every
\* requested framework.
C14_NoExtensionRejected ==
  (ValidateReturned /\ MismatchCase
     /\ \E i \in 1..vin.num_models :
          vin.model[i] # NULL /\ ~HasExtension(vin.model[i]))
    => /\ vout.status = ML_ERROR_INVALID_PARAMETER
       /\ vout.at = "file_ext"

\* C15: in the mismatched case with NNFW requested and every path carrying
\* an extension, the switch leaves no error and the result is success when
\* NNFW is available and NotSupported when not.
C15_NnfwAcceptsAnyExtension ==
  (ValidateReturned /\ MismatchCase /\ vin.nnfw = "ML_NNFW_TYPE_NNFW"
     /\ \A i \in 1..vin.num_models : HasExtension(vin.model[i]))
    => /\ vout.at = "switch"
       /\ vout.at_done = ML_ERROR_NONE
       /\ vout.status = IF "ML_NNFW_TYPE_NNFW" \in vin.available
                        THEN ML_ERROR_NONE ELSE ML_ERROR_NOT_SUPPORTED

\* add.tflite opened with NNFW while tensorflow-lite is detected and NNFW
\* is available: success.
C15_Witness ==
  /\ ValidateReturned /\ MismatchCase /\ vin.nnfw = "ML_NNFW_TYPE_NNFW"
  /\ vin.model = <<P_tflite>>
  /\ DetectedFw = "ML_NNFW_TYPE_TENSORFLOW_LITE"
  /\ vout.status = ML_ERROR_NONE

\* C16: in the mismatched case with every path carrying an extension, a
\* request for MVNC, OPENVINO or EDGE_TPU fails with NotSupported; a
\* request for SNAP fails with NotSupported on a build without __ANDROID__
\* and passes extension validation on a build with it.
C16_NotValidatedAndSnap ==
  (ValidateReturned /\ MismatchCase
     /\ \A i \in 1..vin.num_models : HasExtension(vin.model[i]))
    => /\ vin.nnfw \in {"ML_NNFW_TYPE_MVNC", "ML_NNFW_TYPE_OPENVINO",
                        "ML_NNFW_TYPE_EDGE_TPU"}
            => vout.status = ML_ERROR_NOT_SUPPORTED /\ vout.at = "switch"
       /\ (vin.nnfw = "ML_NNFW_TYPE_SNAP" /\ ~vin.android)
            => vout.status = ML_ERROR_NOT_SUPPORTED /\ vout.at = "switch"
       /\ (vin.nnfw = "ML_NNFW_TYPE_SNAP" /\ vin.android)
            => /\ vout.at_done = ML_ERROR_NONE
               /\ vout.status = IF "ML_NNFW_TYPE_SNAP" \in vin.available
                                THEN ML_ERROR_NONE ELSE ML_ERROR_NOT_SUPPORTED

\* SNAP requested on an Android build for two files, nothing detected,
\* SNAP available: success.
C16_Witness ==
  /\ ValidateReturned /\ MismatchCase
  /\ vin.nnfw = "ML_NNFW_TYPE_SNAP" /\ vin.android
  /\ vin.model = <<P_bin, P_bin>>
  /\ DetectedFw = "ML_NNFW_TYPE_ANY"
  /\ vout.status = ML_ERROR_NONE

\* The frameworks the switch of the mismatched case has a case for.
SwitchCases ==
  {"ML_NNFW_TYPE_NNFW", "ML_NNFW_TYPE_MVNC", "ML_NNFW_TYPE_OPENVINO",
   "ML_NNFW_TYPE_EDGE_TPU", "ML_NNFW_TYPE_VD_AIFW", "ML_NNFW_TYPE_SNAP",
   "ML_NNFW_TYPE_ARMNN"}

\* The frameworks a caller can name that the switch has no case for.
DefaultCases == (NnfwTypes \ SwitchCases) \ {"ML_NNFW_TYPE_ANY"}

\* C24: a request for a framework the switch has no case for fails with
\* InvalidParameter in the mismatched case, whatever the extensions of the
\* paths are, and succeeds only when the detection names that framework.
C24_DefaultRejects ==
  (ValidateReturned /\ vin.has_nnfw /\ vin.nnfw \in DefaultCases)
    => /\ MismatchCase =>
            /\ vout.status = ML_ERROR_INVALID_PARAMETER
            /\ vout.at \in {"file_ext", "switch"}
       /\ vout.status = ML_ERROR_NONE =>
            /\ DetectedFw = vin.nnfw
            /\ vout.at = "match"

\* add.tflite opened with PYTORCH while tensorflow-lite is detected and
\* PYTORCH is available: InvalidParameter from the default branch.
C24_Witness ==
  /\ ValidateReturned /\ MismatchCase
  /\ vin.nnfw = "ML_NNFW_TYPE_PYTORCH"
  /\ vin.model = <<P_tflite>>
  /\ DetectedFw = "ML_NNFW_TYPE_TENSORFLOW_LITE"
  /\ "ML_NNFW_TYPE_PYTORCH" \in vin.available
  /\ vout.at = "switch"
  /\ vout.status = ML_ERROR_INVALID_PARAMETER

(***************************************************************************)
(* Properties of the converter                                             *)
(***************************************************************************)

\* The common rank of the two representations.
CommonRank == IF rank.ml < rank.nns THEN rank.ml ELSE rank.nns

\* The public set is one the round trip is claimed for: every type of a
\* slot in use is a known type or Unknown, and every dimension slot beyond
\* the common rank is 1.
RoundTripInput ==
  \A i \in 1..ml_info.num_tensors :
    /\ ml_info.info[i].type # "ML_TENSOR_TYPE_OUT_OF_RANGE"
    /\ \A j \in (CommonRank + 1)..rank.ml : ml_info.info[i].dimension[j] = 1

\* C1: converting a public set to the internal form and back reproduces the
\* count and, in every slot in use, the name (absent stays absent), the
\* type and every dimension value.
C1_RoundTrip ==
  (cpc = "back" /\ RoundTripInput)
    => /\ ml_out.num_tensors = ml_info.num_tensors
       /\ \A i \in 1..ml_info.num_tensors :
            /\ ml_out.info[i].name = ml_info.info[i].name
            /\ ml_out.info[i].type = ml_info.info[i].type
            /\ ml_out.info[i].dimension = ml_info.info[i].dimension

\* A round trip, in a build whose public rank limit is the larger one, of a
\* set that fills every slot: an unnamed tensor of type Unknown and a named
\* one with a shape.
C1_Witness ==
  /\ cpc = "back" /\ RoundTripInput
  /\ rank.ml > rank.nns
  /\ ml_info.num_tensors = MaxTensors
  /\ ml_info.info[1].name = NULL
  /\ ml_info.info[1].type = "ML_TENSOR_TYPE_UNKNOWN"
  /\ ml_info.info[MaxTensors].name = <<"i", "n">>
  /\ ml_info.info[MaxTensors].dimension = DimShape(rank.ml)
  /\ ml_out.info = ml_info.info

\* The conversion whose result the state holds: "ml" when gst_info was
\* just written from ml_info, "gst" when ml_out was just written from
\* gst_info, by _ml_tensors_info_copy_from_gst or through
\* _ml_tensors_info_create_from_gst.
Converted ==
  CASE cpc = "gst" -> "ml"
    [] cpc \in {"ml_dst", "back"} -> "gst"
    [] cpc = "created" /\ created.status = ML_ERROR_NONE -> "gst"
    [] OTHER -> "none"

ConvSource == IF Converted = "ml" THEN ml_info ELSE gst_info
ConvDest == IF Converted = "ml" THEN gst_info ELSE ml_out
ConvDestRank == IF Converted = "ml" THEN rank.nns ELSE rank.ml

\* C17: in both directions and in every slot below the count, the
\* destination's dimension slots below the common rank equal the source's,
\* and those from the common rank up to the destination's limit are 1.
C17_PaddingIdentity ==
  Converted # "none" =>
    \A i \in 1..ConvSource.num_tensors :
      /\ \A j \in 1..CommonRank :
           ConvDest.info[i].dimension[j] = ConvSource.info[i].dimension[j]
      /\ \A j \in (CommonRank + 1)..ConvDestRank :
           ConvDest.info[i].dimension[j] = 1
      /\ DOMAIN ConvDest.info[i].dimension = 1..ConvDestRank

\* A public set whose first tensor uses every public dimension slot is
\* converted in a build whose internal rank limit is larger: the extra
\* internal slot holds 1.
C17_Witness ==
  /\ Converted = "ml"
  /\ rank.nns > rank.ml
  /\ ml_info.num_tensors >= 1
  /\ ml_info.info[1].dimension = DimFull(rank.ml)
  /\ gst_info.info[1].dimension[rank.nns] = 1
  /\ gst_info.info[1].dimension[rank.ml] = rank.ml + 1

\* The known types of the two representations, by name.
KnownTypePairs ==
  { <<"ML_TENSOR_TYPE_INT8", "_NNS_INT8">>,
    <<"ML_TENSOR_TYPE_UINT8", "_NNS_UINT8">>,
    <<"ML_TENSOR_TYPE_INT16", "_NNS_INT16">>,
    <<"ML_TENSOR_TYPE_UINT16", "_NNS_UINT16">>,
    <<"ML_TENSOR_TYPE_INT32", "_NNS_INT32">>,
    <<"ML_TENSOR_TYPE_UINT32", "_NNS_UINT32">>,
    <<"ML_TENSOR_TYPE_INT64", "_NNS_INT64">>,
    <<"ML_TENSOR_TYPE_UINT64", "_NNS_UINT64">>,
    <<"ML_TENSOR_TYPE_FLOAT32", "_NNS_FLOAT32">>,
    <<"ML_TENSOR_TYPE_FLOAT64", "_NNS_FLOAT64">> }

\* The type a slot of the destination must hold for the type src of the
\* source's slot.
ExpectedType(src) ==
  IF Converted = "ml"
  THEN IF \E p \in KnownTypePairs : p[1] = src
       THEN (CHOOSE p \in KnownTypePairs : p[1] = src)[2]
       ELSE "_NNS_END"
  ELSE IF \E p \in KnownTypePairs : p[2] = src
       THEN (CHOOSE p \in KnownTypePairs : p[2] = src)[1]
       ELSE "ML_TENSOR_TYPE_UNKNOWN"

\* C18: each of the ten known types converts to the type of the same name,
\* every other internal type value to the public Unknown and every other
\* public type value to the internal End.
C18_TypeMapping ==
  Converted # "none" =>
    \A i \in 1..ConvSource.num_tensors :
      ConvDest.info[i].type = ExpectedType(ConvSource.info[i].type)

\* An internal set with a tensor of a type value outside the enumeration
\* and a tensor of type _NNS_UINT8 is converted to Unknown and UINT8.
C18_Witness ==
  /\ Converted = "gst" /\ cpc = "ml_dst"
  /\ gst_info.num_tensors = 2
  /\ gst_info.info[1].type = "_NNS_OUT_OF_RANGE"
  /\ gst_info.info[2].type = "_NNS_UINT8"
  /\ ml_out.info[1].type = "ML_TENSOR_TYPE_UNKNOWN"
  /\ ml_out.info[2].type = "ML_TENSOR_TYPE_UINT8"

\* C19: in both directions the destination's count is the source's, and
\* slot i of the destination holds the name (when the source's slot has
\* one), the type and the dimensions of slot i of the source.
C19_OrderAndCount ==
  Converted # "none" =>
    /\ ConvDest.num_tensors = ConvSource.num_tensors
    /\ \A i \in 1..ConvSource.num_tensors :
         /\ ConvSource.info[i].name # NULL
              => ConvDest.info[i].name = ConvSource.info[i].name
         /\ ConvDest.info[i].type = ExpectedType(ConvSource.info[i].type)
         /\ \A j \in 1..CommonRank :
              ConvDest.info[i].dimension[j] = ConvSource.info[i].dimension[j]

\* An internal set of two tensors that differ in name, type and shape is
\* converted.
C19_Witness ==
  /\ Converted = "gst" /\ cpc = "ml_dst"
  /\ gst_info.num_tensors = 2
  /\ gst_info.info[1].name # NULL /\ gst_info.info[2].name # NULL
  /\ gst_info.info[1].name # gst_info.info[2].name
  /\ gst_info.info[1].type # gst_info.info[2].type
  /\ gst_info.info[1].dimension # gst_info.info[2].dimension
  /\ ml_out.num_tensors = 2
  /\ ml_out.info[1].name = gst_info.info[1].name
  /\ ml_out.info[2].name = gst_info.info[2].name

\* The internal set is the conversion of one of the values the source had
\* during the conversion.
SnapshotOfOneState ==
  \E src \in seen : gst_info = _ml_tensors_info_copy_from_ml(gst_info, src)

\* C9: the conversion holds the lock of the source from before its first
\* read to after its last one, its result is the conversion of one state of
\* the source, and the lock is not held at the return.
C9_ConvertsUnderLock ==
  /\ cpc \in ConvReading => lock = "conv"
  /\ cpc = "done" => (lock # "conv" /\ SnapshotOfOneState)

\* The conversion of a source flagged nolock has returned without ever
\* holding the lock, the owner has written the source meanwhile, and the
\* result is the conversion of no state the source had.
C9_Witness ==
  /\ cpc = "done" /\ ml_info.nolock
  /\ writes > 0
  /\ lock = "free"
  /\ ~SnapshotOfOneState

\* Where the conversion does what C9 says: for a source that is not flagged
\* nolock the lock is held at every read, the owner writes nothing
\* meanwhile, and the result is the conversion of the source as it was; the
\* lock is never left held, and never taken for a source flagged nolock.
LockingSourceIsSnapshot ==
  /\ (~ml_info.nolock /\ cpc \in ConvReading) => (lock = "conv" /\ seen = {ml_info})
  /\ (~ml_info.nolock /\ cpc = "done") => SnapshotOfOneState
  /\ cpc \in {"lock", "done"} => lock # "conv"
  /\ ml_info.nolock => lock = "free"


(***************************************************************************)
(* Properties of the element availability gate                             *)
(***************************************************************************)

\* Thread t has a result of a call that looked its element up in the
\* registry and found it.
FoundInRegistry(t) ==
  /\ th[t].pc = "done"
  /\ th[t].has_available
  /\ th[t].status = ML_ERROR_NONE
  /\ th[t].element_name \in RegisteredElements

\* The first-party convention: the plugin name starts with "nnstreamer"
\* and the element name starts with "tensor_".
FirstParty(element_name) ==
  /\ LET plugin_name == PluginNameOf(element_name)
         p == <<"n", "n", "s", "t", "r", "e", "a", "m", "e", "r">>
     IN  Len(plugin_name) >= Len(p) /\ \A k \in 1..Len(p) : plugin_name[k] = p[k]
  /\ LET e == <<"t", "e", "n", "s", "o", "r", "_">>
     IN  /\ Len(element_name) >= Len(e)
         /\ \A k \in 1..Len(e) : element_name[k] = e[k]

\* The allow-list the configuration states: the names in the value of
\* restricted_elements, separated by ' ', ',' or ';'; none without a value.
AllowList ==
  IF conf.elements = NULL
  THEN {}
  ELSE LET tokens == g_strsplit_set(conf.elements, {" ", ",", ";"})
       IN  { tokens[k] : k \in 1..Len(tokens) }

\* Threads between the test of list_loaded and the store to it.
InLoadStep == { t \in Threads : th[t].pc \in {"load", "set_loaded"} }

\* C6: over every interleaving of calls, the restriction configuration is
\* read and the allow-list written at most once, and no caller is in the
\* load step while, or after, another caller performs it.
C6_LoadsExactlyOnce ==
  /\ loads <= 1
  /\ Cardinality(InLoadStep) <= 1
  /\ list_loaded => InLoadStep = {}

\* C7 as stated: every registered element that is not first-party is
\* reported available when restriction is disabled, and when it is enabled
\* exactly when its name is in the allow-list.
C7_RestrictionPolicy ==
  \A t \in Threads :
    FoundInRegistry(t) /\ ~FirstParty(th[t].element_name) =>
      th[t].available =
        IF ~conf.enable THEN TRUE ELSE th[t].element_name \in AllowList

\* The allow-list names the element: one of its names equals the element
\* name when ASCII case is ignored.
NamedInAllowList(element_name) ==
  \E n \in AllowList :
    /\ Len(n) = Len(element_name)
    /\ \A k \in 1..Len(n) :
         \/ n[k] = element_name[k]
         \/ \E c \in 1..Len(UpperChars) :
              {n[k], element_name[k]} = {UpperChars[c], LowerChars[c]}

\* C7 amended: every registered element with a known owning plugin that is
\* not first-party is reported available when restriction is disabled or no
\* restricted_elements value is configured, and otherwise exactly when the
\* allow-list holds its name, in whatever ASCII case.
C7_RestrictionPolicyWithList ==
  \A t \in Threads :
    /\ FoundInRegistry(t)
    /\ PluginNameOf(th[t].element_name) # NULL
    /\ ~FirstParty(th[t].element_name)
    => th[t].available =
         IF ~conf.enable \/ conf.elements = NULL
         THEN TRUE
         ELSE NamedInAllowList(th[t].element_name)

\* Restriction is enabled with the list "QUEUE", and one call has reported
\* queue, which the list names in capitals, available while another has
\* reported identity, which it does not name, unavailable.
C7_Witness ==
  /\ conf.enable /\ conf.elements = <<"Q", "U", "E", "U", "E">>
  /\ E_queue \notin AllowList
  /\ \E t, u \in Threads :
       /\ FoundInRegistry(t) /\ th[t].element_name = E_queue
       /\ th[t].available = TRUE
       /\ FoundInRegistry(u) /\ th[u].element_name = E_identity
       /\ th[u].available = FALSE

\* C8: a registered first-party element is reported available whatever the
\* restriction list is.
C8_FirstPartyAlwaysAvailable ==
  \A t \in Threads :
    FoundInRegistry(t) /\ FirstParty(th[t].element_name) =>
      th[t].available = TRUE

\* Restriction is enabled with a list that lacks tensor_filter, and a call
\* has reported tensor_filter available.
C8_Witness ==
  /\ conf.enable /\ conf.elements # NULL
  /\ E_tensor_filter \notin AllowList
  /\ restricted_elements = Strv(g_strsplit_set(conf.elements, {" ", ",", ";"}))
  /\ \E t \in Threads :
       /\ FoundInRegistry(t) /\ th[t].element_name = E_tensor_filter
       /\ th[t].available = TRUE

\* Thread t has the result of a call.
CallReturned(t) == th[t].pc = "done"

\* C21: a call with a null element name returns InvalidParameter whether or
\* not the pipeline engine can be initialized, and stores nothing through
\* available.
C21_NullNameRejected ==
  \A t \in Threads :
    CallReturned(t) /\ th[t].element_name = NULL =>
      /\ th[t].status = ML_ERROR_INVALID_PARAMETER
      /\ th[t].available = "unset"

\* The engine cannot be initialized, and a call with a null element name
\* and a place for the answer has returned InvalidParameter.
C21_Witness ==
  /\ ~conf.gst_ok
  /\ \E t \in Threads :
       /\ CallReturned(t) /\ th[t].element_name = NULL
       /\ th[t].has_available
       /\ th[t].status = ML_ERROR_INVALID_PARAMETER
       /\ th[t].available = "unset"

\* The policy of _ml_check_plugin_availability accepts the element: its
\* owning plugin has a name, and it is first-party, or no allow-list is in
\* force, or the allow-list names it.
PolicyAccepts(element_name) ==
  /\ PluginNameOf(element_name) # NULL
  /\ \/ FirstParty(element_name)
     \/ ~conf.enable
     \/ conf.elements = NULL
     \/ \E n \in AllowList : g_ascii_strcasecmp_eq(n, element_name)

\* C22: a call with both arguments given and the engine initialized
\* returns success; it reports available=true when the element is in the
\* registry and the policy accepts it, and available=false when the element
\* is absent or the policy rejects it.
C22_UnavailableIsNotAnError ==
  \A t \in Threads :
    (CallReturned(t) /\ th[t].element_name # NULL /\ th[t].has_available
       /\ conf.gst_ok)
    => /\ th[t].status = ML_ERROR_NONE
       /\ th[t].available =
            (/\ th[t].element_name \in RegisteredElements
             /\ PolicyAccepts(th[t].element_name))

\* With an allow-list in force, one call has returned success with
\* available=false for an element the registry does not hold, and another
\* for a registered element the allow-list lacks.
C22_Witness ==
  /\ conf.gst_ok /\ conf.enable /\ conf.elements # NULL
  /\ \E t, u \in Threads :
       /\ CallReturned(t) /\ th[t].element_name = E_nosuch
       /\ th[t].status = ML_ERROR_NONE /\ th[t].available = FALSE
       /\ CallReturned(u) /\ th[u].element_name = E_identity
       /\ ~PolicyAccepts(E_identity)
       /\ th[u].status = ML_ERROR_NONE /\ th[u].available = FALSE

\* No allow-list is configured: restriction is disabled, or it is enabled
\* without a restricted_elements value.
NoListConfigured == ~conf.enable \/ conf.elements = NULL

\* C23 as stated: with restriction enabled and no restricted_elements
\* value, as with restriction disabled, the allow-list stays unset and
\* every call reports every element found in the registry available.
C23_NoListAllowsAll ==
  NoListConfigured =>
    /\ restricted_elements = NullStrv
    /\ \A t \in Threads : FoundInRegistry(t) => th[t].available = TRUE

\* C23 amended: with restriction enabled and no restricted_elements value,
\* as with restriction disabled, the allow-list stays unset and every call
\* reports an element found in the registry available exactly when its
\* owning plugin has a name.
C23_NoListAllowsAllWithPlugin ==
  NoListConfigured =>
    /\ restricted_elements = NullStrv
    /\ \A t \in Threads :
         FoundInRegistry(t) =>
           th[t].available = (PluginNameOf(th[t].element_name) # NULL)

\* Restriction is enabled without a value, the load has run once, and two
\* calls, one of them after the load, have reported a first-party element
\* and a third-party element available.
C23_Witness ==
  /\ conf.enable /\ conf.elements = NULL
  /\ list_loaded /\ loads = 1 /\ restricted_elements = NullStrv
  /\ \E t, u \in Threads :
       /\ FoundInRegistry(t) /\ th[t].element_name = E_tensor_filter
       /\ FirstParty(E_tensor_filter)
       /\ th[t].available = TRUE
       /\ FoundInRegistry(u) /\ th[u].element_name = E_edgesink
       /\ ~FirstParty(E_edgesink)
       /\ th[u].available = TRUE

(***************************************************************************)
(* Properties of the registry                                              *)
(***************************************************************************)

\* The ids of the table whose name is name exactly, and those whose name is
\* name when ASCII case is ignored.
IdsNamedExactly(name) ==
  { NnfwTableIds[k] : k \in { k \in 1..Len(NnfwTableIds) :
                                ml_nnfw_subplugin_name[k] = name } }

IdsNamedIgnoringCase(name) ==
  { NnfwTableIds[k] : k \in { k \in 1..Len(NnfwTableIds) :
        ml_nnfw_subplugin_name[k] = g_ascii_strdown(name) } }

\* name is "snap" in some mix of capitals and small letters.
IsSnapIgnoringCase(name) == g_ascii_strdown(name) = S_snap

\* C20 as stated: the name resolves to the id of the table whose name
\* equals it exactly; without such an id to SNAP when the name is "snap"
\* ignoring case, and otherwise, and for no name, to Any; so the name of
\* every framework id resolves back to that id.
C20_NameResolution ==
  rpc = "done" =>
    /\ r_type = IF r_name # NULL /\ IdsNamedExactly(r_name) # {}
                THEN CHOOSE id \in IdsNamedExactly(r_name) : TRUE
                ELSE IF r_name # NULL /\ IsSnapIgnoringCase(r_name)
                THEN "ML_NNFW_TYPE_SNAP"
                ELSE "ML_NNFW_TYPE_ANY"
    /\ r_id # "none" => r_type = r_id

\* C20 amended: the same, with the table name compared to the name without
\* regard to ASCII case.
C20_NameResolutionIgnoringCase ==
  rpc = "done" =>
    /\ r_type = IF r_name # NULL /\ IdsNamedIgnoringCase(r_name) # {}
                THEN CHOOSE id \in IdsNamedIgnoringCase(r_name) : TRUE
                ELSE IF r_name # NULL /\ IsSnapIgnoringCase(r_name)
                THEN "ML_NNFW_TYPE_SNAP"
                ELSE "ML_NNFW_TYPE_ANY"
    /\ r_id # "none" => r_type = r_id

\* "TENSORFLOW-LITE" has resolved to ML_NNFW_TYPE_TENSORFLOW_LITE.
C20_Witness ==
  /\ rpc = "done"
  /\ r_name = AllCapitals(ml_nnfw_subplugin_name[3])
  /\ r_name # ml_nnfw_subplugin_name[3]
  /\ r_type = "ML_NNFW_TYPE_TENSORFLOW_LITE"

=============================================================================
